---- MODULE Spec2Model ----
(***************************************************************************)
(* A model of @jutech-devs/api-rate-limiter: the three admission           *)
(* strategies (sliding window, fixed window, token bucket), the            *)
(* RateLimiter that wraps an asynchronous operation with them, the         *)
(* PerUserRateLimiter that keeps one RateLimiter per key and sweeps the    *)
(* idle ones, and the clock they read.                                     *)
(*                                                                         *)
(* Time is the value of Date.now(), an integer number of milliseconds.     *)
(* One handler runs at one instant: JavaScript runs a handler to its first *)
(* await without interruption, so every call up to that point is one       *)
(* action.                                                                 *)
(*                                                                         *)
(* The token bucket's tokens are a fraction.  TokenBucket_* keeps the      *)
(* numerator over windowMs, in exact arithmetic:                           *)
(*      tokens (source) = s.tokens / cfg.windowMs                          *)
(* so that  timePassed * refillRate = (dt/1000) * maxRequests/(windowMs/   *)
(* 1000) = dt * maxRequests / windowMs  adds  dt * maxRequests  to the     *)
(* numerator.  FloatBucket_* is the same class with every arithmetic       *)
(* result rounded to a binary significand of Precision bits, as the        *)
(* source's Numbers are rounded to 53.                                     *)
(***************************************************************************)
EXTENDS Integers, Sequences, FiniteSets, TLC

\* ---------------------------------------------------------------- bounds
MaxTime == 5        \* the clock runs over 0..MaxTime
MaxCap == 2         \* maxRequests ranges over 1..MaxCap
MaxWin == 3         \* windowMs ranges over MaxWin-1..MaxWin
MaxPending == 2     \* wrapped operations in flight at once
MaxOver == 1        \* direct consumeRequest() calls stored beyond the capacity
Precision == 8      \* significant bits of a Number in the rounded bucket (binary64: 53)

\* --------------------------------------------------------------- helpers
Max(a, b) == IF a >= b THEN a ELSE b
Min(a, b) == IF a <= b THEN a ELSE b
\* Math.ceil(a / b) for b > 0
CeilDiv(a, b) == -((-a) \div b)

\* ----------------------------------------------------------------- types
StrategyNames == {"sliding-window", "fixed-window", "token-bucket"}

\* RateLimiterConfig, with maxRequests > 0 and windowMs > 0
Configs ==
  [maxRequests : 1..MaxCap, windowMs : (MaxWin - 1)..MaxWin, strategy : StrategyNames,
   skipSuccessfulRequests : BOOLEAN, skipFailedRequests : BOOLEAN]

\* RateLimiterState, the snapshot getState() returns
Snapshot(remaining, resetTime, isLimited, retryAfter, totalRequests) ==
  [remaining |-> remaining, resetTime |-> resetTime, isLimited |-> isLimited,
   retryAfter |-> retryAfter, totalRequests |-> totalRequests]

\* The state of a strategy object.  kind is the class that was instantiated;
\* a field another class does not have stays at 0 / << >>.
StrategyState(kind, ts, count, start, tokens, refill) ==
  [kind |-> kind, requestTimestamps |-> ts, requestCount |-> count,
   windowStart |-> start, tokens |-> tokens, lastRefill |-> refill]

\* What a strategy method leaves behind (s) and returns (ret)
Out(s, ret) == [s |-> s, ret |-> ret]

\* The keys the registry is asked about: a key is any string, the empty one too
UserIds == {"a", ""}

\* useBatchRateLimiter before anything is queued: queueRef.current (the
\* queued requests, by number), processingRef.current, when the loop's
\* setTimeout is due (-1: not waiting), and what became of each request's promise
NoBatch == [queue |-> << >>, processing |-> FALSE, timer |-> -1, outcome |-> << >>]

\* useRateLimitedAPI before any makeAPIRequest: the makeAPIRequest calls, by
\* requestId, and the requestIds retryTimeoutsRef.current holds a timer for
NoApi == [calls |-> << >>, timeouts |-> {}]

\* A Map with no entry
NoLimiters == [userId \in {} |-> 0]

\* No PerUserRateLimiter was constructed
NoRegistry == [cleanupInterval |-> 0, maxInactiveTime |-> 0]

\* cleanup()'s fallback for a falsy maxInactiveTime
DefaultMaxInactiveTime == 3600000

\* PerUserRateLimiterConfig: the limiters' config and the sweep's two numbers.
\* cleanupInterval 0 starts no timer.
PerUserConfigs ==
  [maxRequests : 1..MaxCap, windowMs : {MaxWin - 1}, strategy : StrategyNames,
   skipSuccessfulRequests : {FALSE}, skipFailedRequests : {FALSE},
   cleanupInterval : {0, MaxWin - 1}, maxInactiveTime : {0, 1, MaxWin - 1, MaxWin}]

\* ------------------------------------------------- SlidingWindowStrategy
SlidingWindow_new(cfg, t) == StrategyState("sliding-window", << >>, 0, 0, 0, 0)

\* A purge that drops a timestamp one millisecond early
SlidingWindow_cleanupOldRequests_early(s, cfg, t) ==
  [s EXCEPT !.requestTimestamps =
     SelectSeq(@, LAMBDA timestamp : t - timestamp < cfg.windowMs - 1)]

SlidingWindow_cleanupOldRequests(s, cfg, t) ==
  [s EXCEPT !.requestTimestamps =
     SelectSeq(@, LAMBDA timestamp : t - timestamp < cfg.windowMs)]

\* A check that lets one call too many through
SlidingWindow_canMakeRequest_lax(s, cfg, t) ==
  LET c == SlidingWindow_cleanupOldRequests(s, cfg, t)
  IN  Out(c, Len(c.requestTimestamps) <= cfg.maxRequests)

SlidingWindow_canMakeRequest(s, cfg, t) ==
  LET c == SlidingWindow_cleanupOldRequests(s, cfg, t)
  IN  Out(c, Len(c.requestTimestamps) < cfg.maxRequests)

SlidingWindow_consumeRequest(s, cfg, t) ==
  [s EXCEPT !.requestTimestamps = Append(@, t)]

\* A wait computed from the newest timestamp instead of the oldest
SlidingWindow_getWaitTime_newest(s, cfg, t) ==
  IF Len(s.requestTimestamps) = 0
  THEN Out(s, 0)
  ELSE Out(s, Max(0, cfg.windowMs - (t - s.requestTimestamps[Len(s.requestTimestamps)])))

\* getWaitTime does not purge: it reads the list as the last purge left it
SlidingWindow_getWaitTime(s, cfg, t) ==
  IF Len(s.requestTimestamps) = 0
  THEN Out(s, 0)
  ELSE Out(s, Max(0, cfg.windowMs - (t - s.requestTimestamps[1])))

\* A reset time that is always a whole window away
SlidingWindow_getNextResetTime_now(s, cfg, t) == t + cfg.windowMs

SlidingWindow_getNextResetTime(s, cfg, t) ==
  IF Len(s.requestTimestamps) = 0
  THEN t + cfg.windowMs
  ELSE s.requestTimestamps[1] + cfg.windowMs

SlidingWindow_getState(s, cfg, t) ==
  LET c == SlidingWindow_cleanupOldRequests(s, cfg, t)
      remaining == Max(0, cfg.maxRequests - Len(c.requestTimestamps))
      isLimited == remaining = 0
  IN  Out(c, Snapshot(remaining,
                      SlidingWindow_getNextResetTime(c, cfg, t),
                      isLimited,
                      IF isLimited THEN SlidingWindow_getWaitTime(c, cfg, t).ret ELSE 0,
                      Len(c.requestTimestamps)))

SlidingWindow_reset(s, cfg, t) == [s EXCEPT !.requestTimestamps = << >>]

\* --------------------------------------------------- FixedWindowStrategy
FixedWindow_new(cfg, t) == StrategyState("fixed-window", << >>, 0, t, 0, 0)

\* A rollover that starts the new window with the old count
FixedWindow_checkWindowReset_carry(s, cfg, t) ==
  IF t >= s.windowStart + cfg.windowMs
  THEN [s EXCEPT !.windowStart = t]
  ELSE s

\* A rollover one millisecond before the window ends
FixedWindow_checkWindowReset_early(s, cfg, t) ==
  IF t >= s.windowStart + cfg.windowMs - 1
  THEN [s EXCEPT !.requestCount = 0, !.windowStart = t]
  ELSE s

FixedWindow_checkWindowReset(s, cfg, t) ==
  IF t >= s.windowStart + cfg.windowMs
  THEN [s EXCEPT !.requestCount = 0, !.windowStart = t]
  ELSE s

\* A check that admits while the count has not passed the capacity
FixedWindow_canMakeRequest_lax(s, cfg, t) ==
  LET c == FixedWindow_checkWindowReset(s, cfg, t)
  IN  Out(c, c.requestCount <= cfg.maxRequests)

FixedWindow_canMakeRequest(s, cfg, t) ==
  LET c == FixedWindow_checkWindowReset(s, cfg, t)
  IN  Out(c, c.requestCount < cfg.maxRequests)

\* A consumption that counts without looking at the window's end
FixedWindow_consumeRequest_norollover(s, cfg, t) ==
  [s EXCEPT !.requestCount = @ + 1]

FixedWindow_consumeRequest(s, cfg, t) ==
  LET c == FixedWindow_checkWindowReset(s, cfg, t)
  IN  [c EXCEPT !.requestCount = @ + 1]

\* A wait that is always the whole window
FixedWindow_getWaitTime_whole(s, cfg, t) == Out(s, cfg.windowMs)

\* getWaitTime does not roll the window over
FixedWindow_getWaitTime(s, cfg, t) ==
  Out(s, Max(0, (s.windowStart + cfg.windowMs) - t))

FixedWindow_getState(s, cfg, t) ==
  LET c == FixedWindow_checkWindowReset(s, cfg, t)
      remaining == Max(0, cfg.maxRequests - c.requestCount)
      isLimited == remaining = 0
  IN  Out(c, Snapshot(remaining,
                      c.windowStart + cfg.windowMs,
                      isLimited,
                      IF isLimited THEN FixedWindow_getWaitTime(c, cfg, t).ret ELSE 0,
                      c.requestCount))

\* A reset that opens a new window and keeps the count
FixedWindow_reset_keepcount(s, cfg, t) == [s EXCEPT !.windowStart = t]

FixedWindow_reset(s, cfg, t) == [s EXCEPT !.requestCount = 0, !.windowStart = t]

\* --------------------------------------------------- TokenBucketStrategy
\* tokens = config.maxRequests, as a numerator over windowMs
TokenBucket_new(cfg, t) ==
  StrategyState("token-bucket", << >>, 0, 0, cfg.maxRequests * cfg.windowMs, t)

\* A refill that does not record when it ran
TokenBucket_refillTokens_norecord(s, cfg, t) ==
  [s EXCEPT !.tokens = Min(cfg.maxRequests * cfg.windowMs,
                           @ + (t - s.lastRefill) * cfg.maxRequests)]

TokenBucket_refillTokens(s, cfg, t) ==
  [s EXCEPT !.tokens = Min(cfg.maxRequests * cfg.windowMs,
                           @ + (t - s.lastRefill) * cfg.maxRequests),
            !.lastRefill = t]

\* A check that admits on any fraction of a token
TokenBucket_canMakeRequest_lax(s, cfg, t) ==
  LET c == TokenBucket_refillTokens(s, cfg, t)
  IN  Out(c, c.tokens > 0)

TokenBucket_canMakeRequest(s, cfg, t) ==
  LET c == TokenBucket_refillTokens(s, cfg, t)
  IN  Out(c, c.tokens >= cfg.windowMs)

TokenBucket_consumeRequest(s, cfg, t) ==
  LET c == TokenBucket_refillTokens(s, cfg, t)
  IN  IF c.tokens >= cfg.windowMs
      THEN [c EXCEPT !.tokens = Max(0, @ - cfg.windowMs)]
      ELSE c

TokenBucket_getWaitTime(s, cfg, t) ==
  LET c == TokenBucket_refillTokens(s, cfg, t)
  IN  IF c.tokens >= cfg.windowMs
      THEN Out(c, 0)
      ELSE Out(c, CeilDiv(cfg.windowMs - c.tokens, cfg.maxRequests))

TokenBucket_getNextRefillTime(s, cfg, t) ==
  IF s.tokens >= cfg.maxRequests * cfg.windowMs
  THEN t + cfg.windowMs
  ELSE t + TokenBucket_getWaitTime(s, cfg, t).ret

TokenBucket_getState(s, cfg, t) ==
  LET c == TokenBucket_refillTokens(s, cfg, t)
      remaining == c.tokens \div cfg.windowMs
      isLimited == c.tokens < cfg.windowMs
  IN  Out(c, Snapshot(remaining,
                      TokenBucket_getNextRefillTime(c, cfg, t),
                      isLimited,
                      IF isLimited THEN TokenBucket_getWaitTime(c, cfg, t).ret ELSE 0,
                      cfg.maxRequests - remaining))

TokenBucket_reset(s, cfg, t) ==
  [s EXCEPT !.tokens = cfg.maxRequests * cfg.windowMs, !.lastRefill = t]

\* ------------------------------- TokenBucketStrategy, in rounded arithmetic
\* tokens, refillRate, timePassed and tokensToAdd are Numbers: binary floating
\* point, every operation rounded to nearest, ties to even.  A Number is kept
\* as the fraction num / den it equals (den a power of two); the significand
\* has Precision bits.  Only values >= 0 occur while the clock does not step
\* back.
Ratio(num, den) == [num |-> num, den |-> den]

RECURSIVE Pow2(_)
Pow2(n) == IF n = 0 THEN 1 ELSE 2 * Pow2(n - 1)

\* num / den in lowest terms, for den a power of two
RECURSIVE Reduce(_, _)
Reduce(num, den) ==
  IF den > 1 /\ num % 2 = 0 THEN Reduce(num \div 2, den \div 2) ELSE Ratio(num, den)

\* A significand m has 2^(Precision-1) <= m < 2^Precision
SignificandMin == Pow2(Precision - 1)
SignificandEnd == Pow2(Precision)

\* The Number nearest to (num / den) * 2^e
RECURSIVE Round(_, _, _)
Round(num, den, e) ==
  IF num = 0 THEN Ratio(0, 1)
  ELSE IF num \div SignificandEnd >= den
       THEN IF num % 2 = 0 THEN Round(num \div 2, den, e + 1)
                           ELSE Round(num, 2 * den, e + 1)
  ELSE IF num \div SignificandMin < den
       THEN IF den % 2 = 0 THEN Round(num, den \div 2, e - 1)
                           ELSE Round(2 * num, den, e - 1)
  ELSE LET q == num \div den
           r == num % den
           m == IF 2 * r > den \/ (2 * r = den /\ q % 2 = 1) THEN q + 1 ELSE q
       IN  IF e >= 0 THEN Ratio(m * Pow2(e), 1) ELSE Reduce(m, Pow2(-e))

\* An integer as a Number: exact while it fits the significand
Num(i) == IF i >= 0 /\ i < SignificandEnd THEN Ratio(i, 1) ELSE Round(i, 1, 0)

NumAdd(a, b) == Round(a.num * b.den + b.num * a.den, a.den * b.den, 0)
\* a - b, for a >= b
NumSub(a, b) == Round(a.num * b.den - b.num * a.den, a.den * b.den, 0)
NumMul(a, b) == Round(a.num * b.num, a.den * b.den, 0)
NumDiv(a, b) == Round(a.num * b.den, a.den * b.num, 0)
NumLess(a, b) == a.num * b.den < b.num * a.den
NumMin(a, b) == IF NumLess(b, a) THEN b ELSE a
NumFloor(a) == a.num \div a.den
NumCeil(a) == CeilDiv(a.num, a.den)

\* this.refillRate = config.maxRequests / (config.windowMs / 1000)
FloatBucket_refillRate(cfg) ==
  NumDiv(Num(cfg.maxRequests), NumDiv(Num(cfg.windowMs), Num(1000)))

FloatBucket_new(cfg, t) ==
  StrategyState("token-bucket (Number)", << >>, 0, 0, Num(cfg.maxRequests), t)

FloatBucket_refillTokens(s, cfg, t) ==
  LET timePassed == NumDiv(Num(t - s.lastRefill), Num(1000))
      tokensToAdd == NumMul(timePassed, FloatBucket_refillRate(cfg))
  IN  [s EXCEPT !.tokens = NumMin(Num(cfg.maxRequests), NumAdd(@, tokensToAdd)),
                !.lastRefill = t]

\* Each method refills first; what it does next is written over the refilled
\* bucket c.
\* this.tokens >= 1
FloatBucket_hasToken(c) == ~NumLess(c.tokens, Num(1))

FloatBucket_canMakeRequest_refilled(c) == Out(c, FloatBucket_hasToken(c))

FloatBucket_canMakeRequest(s, cfg, t) ==
  FloatBucket_canMakeRequest_refilled(FloatBucket_refillTokens(s, cfg, t))

FloatBucket_consumeRequest_refilled(c) ==
  IF FloatBucket_hasToken(c) THEN [c EXCEPT !.tokens = NumSub(@, Num(1))] ELSE c

FloatBucket_consumeRequest(s, cfg, t) ==
  FloatBucket_consumeRequest_refilled(FloatBucket_refillTokens(s, cfg, t))

\* Math.ceil((1 - tokens) / refillRate * 1000)
FloatBucket_getWaitTime_refilled(c, cfg) ==
  IF FloatBucket_hasToken(c)
  THEN Out(c, 0)
  ELSE Out(c, NumCeil(NumMul(NumDiv(NumSub(Num(1), c.tokens),
                                    FloatBucket_refillRate(cfg)),
                             Num(1000))))

FloatBucket_getWaitTime(s, cfg, t) ==
  FloatBucket_getWaitTime_refilled(FloatBucket_refillTokens(s, cfg, t), cfg)

FloatBucket_getNextRefillTime(s, cfg, t) ==
  IF ~NumLess(s.tokens, Num(cfg.maxRequests))
  THEN t + cfg.windowMs
  ELSE t + FloatBucket_getWaitTime(s, cfg, t).ret

\* The snapshot, from remaining = Math.floor(tokens) and isLimited = tokens < 1
FloatBucket_snapshot(c, cfg, t, remaining, isLimited) ==
  Snapshot(remaining,
           FloatBucket_getNextRefillTime(c, cfg, t),
           isLimited,
           IF isLimited THEN FloatBucket_getWaitTime(c, cfg, t).ret ELSE 0,
           cfg.maxRequests - remaining)

FloatBucket_getState_refilled(c, cfg, t) ==
  Out(c, FloatBucket_snapshot(c, cfg, t, NumFloor(c.tokens),
                              NumLess(c.tokens, Num(1))))

FloatBucket_getState(s, cfg, t) ==
  FloatBucket_getState_refilled(FloatBucket_refillTokens(s, cfg, t), cfg, t)

FloatBucket_reset(s, cfg, t) ==
  [s EXCEPT !.tokens = Num(cfg.maxRequests), !.lastRefill = t]

\* ------------------------------------- RateLimiterStrategy (the interface)
canMakeRequest(s, cfg, t) ==
  CASE s.kind = "fixed-window" -> FixedWindow_canMakeRequest(s, cfg, t)
    [] s.kind = "token-bucket" -> TokenBucket_canMakeRequest(s, cfg, t)
    [] OTHER -> SlidingWindow_canMakeRequest(s, cfg, t)

consumeRequest(s, cfg, t) ==
  CASE s.kind = "fixed-window" -> FixedWindow_consumeRequest(s, cfg, t)
    [] s.kind = "token-bucket" -> TokenBucket_consumeRequest(s, cfg, t)
    [] OTHER -> SlidingWindow_consumeRequest(s, cfg, t)

getState(s, cfg, t) ==
  CASE s.kind = "fixed-window" -> FixedWindow_getState(s, cfg, t)
    [] s.kind = "token-bucket" -> TokenBucket_getState(s, cfg, t)
    [] OTHER -> SlidingWindow_getState(s, cfg, t)

getWaitTime(s, cfg, t) ==
  CASE s.kind = "fixed-window" -> FixedWindow_getWaitTime(s, cfg, t)
    [] s.kind = "token-bucket" -> TokenBucket_getWaitTime(s, cfg, t)
    [] OTHER -> SlidingWindow_getWaitTime(s, cfg, t)

reset(s, cfg, t) ==
  CASE s.kind = "fixed-window" -> FixedWindow_reset(s, cfg, t)
    [] s.kind = "token-bucket" -> TokenBucket_reset(s, cfg, t)
    [] OTHER -> SlidingWindow_reset(s, cfg, t)

\* ----------------------------------------------------------- RateLimiter
\* One thing a handler does that its caller or a callback can observe
Ev(e, v) == [e |-> e, v |-> v]

\* What a RateLimiter method leaves behind (s), whether it admitted, and the
\* observable events in the order the code produces them
Did(s, admitted, ev) == [s |-> s, admitted |-> admitted, ev |-> ev]

\* switch (config.strategy): anything that is not 'fixed-window' or
\* 'token-bucket' takes the default branch
RateLimiter_createStrategy(cfg, t) ==
  CASE cfg.strategy = "fixed-window" -> FixedWindow_new(cfg, t)
    [] cfg.strategy = "token-bucket" -> TokenBucket_new(cfg, t)
    [] OTHER -> SlidingWindow_new(cfg, t)

\* onRequest told the remaining read before the consumption
RateLimiter_consumeRequest_stale(s, cfg, t) ==
  LET state == getState(s, cfg, t)
      c == consumeRequest(state.s, cfg, t)
  IN  Did(c, TRUE, << Ev("consume", 0), Ev("onRequest", state.ret.remaining) >>)

\* strategy.consumeRequest(); state = getState(); onRequest(state.remaining)
RateLimiter_consumeRequest(s, cfg, t) ==
  LET c == consumeRequest(s, cfg, t)
      state == getState(c, cfg, t)
  IN  Did(state.s, TRUE,
          << Ev("consume", 0), Ev("onRequest", state.ret.remaining) >>)

\* The body is comments only
RateLimiter_refundRequest(s, cfg, t) == s

\* A makeRequest that checks, calls requestFn and consumes only after the await
RateLimiter_makeRequest_deferred(s, cfg, t) ==
  LET can == canMakeRequest(s, cfg, t)
  IN  IF ~can.ret
      THEN LET waitTime == getWaitTime(can.s, cfg, t)
           IN  Did(waitTime.s, FALSE,
                   << Ev("onRateLimit", waitTime.ret),
                      Ev("throw RateLimitError", waitTime.ret) >>)
      ELSE Did(can.s, TRUE, << Ev("requestFn", 0) >>)

\* A makeRequest whose rejection notifies and then goes on instead of throwing
RateLimiter_makeRequest_nothrow(s, cfg, t) ==
  LET can == canMakeRequest(s, cfg, t)
      waitTime == getWaitTime(can.s, cfg, t)
      c == RateLimiter_consumeRequest(can.s, cfg, t)
  IN  Did(c.s, TRUE,
          (IF can.ret THEN << >> ELSE << Ev("onRateLimit", waitTime.ret) >>)
            \o c.ev \o << Ev("requestFn", 0) >>)

\* makeRequest up to the await: the admission check, then either the
\* rejection or the consumption and the call of requestFn
RateLimiter_makeRequest(s, cfg, t) ==
  LET can == canMakeRequest(s, cfg, t)
  IN  IF ~can.ret
      THEN LET waitTime == getWaitTime(can.s, cfg, t)
           IN  Did(waitTime.s, FALSE,
                   << Ev("onRateLimit", waitTime.ret),
                      Ev("throw RateLimitError", waitTime.ret) >>)
      ELSE LET c == RateLimiter_consumeRequest(can.s, cfg, t)
           IN  Did(c.s, TRUE, c.ev \o << Ev("requestFn", 0) >>)

\* makeRequest after the await, requestFn having resolved
RateLimiter_resolved(s, cfg, t) ==
  IF cfg.skipSuccessfulRequests
  THEN Did(RateLimiter_refundRequest(s, cfg, t), TRUE,
           << Ev("refundRequest", 0), Ev("return", 0) >>)
  ELSE Did(s, TRUE, << Ev("return", 0) >>)

\* A catch block that wraps what requestFn raised
RateLimiter_rejected_wrapped(s, cfg, t, error) ==
  Did(s, TRUE, << Ev("throw RateLimitError", 0) >>)

\* makeRequest after the await, requestFn having rejected with error
RateLimiter_rejected(s, cfg, t, error) ==
  IF cfg.skipFailedRequests
  THEN Did(RateLimiter_refundRequest(s, cfg, t), TRUE,
           << Ev("refundRequest", 0), Ev("throw", error) >>)
  ELSE Did(s, TRUE, << Ev("throw", error) >>)

\* ----------------------------------------------------------------- state
VARIABLES
  now,        \* Date.now()
  config,     \* RateLimiter.config
  strategy,   \* RateLimiter.strategy
  pending,    \* the makeRequest calls suspended at their await
  last,       \* what the handler that ran last did (observation)
  admLog,     \* when makeRequest admitted, within the last windowMs (observation)
  burst,      \* makeRequest calls since the limiter was made fresh, clock held (observation)
  registryConfig,  \* PerUserRateLimiter.config
  limiters,        \* PerUserRateLimiter.limiters
  cleanupTimer,    \* PerUserRateLimiter.cleanupTimer: when it fires next, -1 when there is none
  batch,           \* useBatchRateLimiter: queueRef, processingRef, the loop of processQueue
  api              \* useRateLimitedAPI: retryTimeoutsRef and the makeAPIRequest calls

vars == << now, config, strategy, pending, last, admLog, burst,
           registryConfig, limiters, cleanupTimer, batch, api >>

\* The registry's variables; a limiter used on its own has no registry
registryVars == << registryConfig, limiters, cleanupTimer >>

\* The hooks' variables; a limiter used without a hook has none
hookVars == << batch, api >>

\* What the wrapped operations may raise
OpErrors == {1, 2}

\* The observation of a handler: the makeRequest call it started (0: none),
\* the events a callback or the caller sees, in order (a read shows none), and
\* the remaining a snapshot would have reported just before it (-1: not recorded)
Last(id, ev, before) == [id |-> id, ev |-> ev, before |-> before]

Idle == Last(0, << >>, -1)

\* The remaining a snapshot taken now would report
Remaining == getState(strategy, config, now).ret.remaining

\* Entries the strategy holds against the capacity
Stored(s) == Len(s.requestTimestamps) + s.requestCount

\* The admissions of log that lie in the window ending at t
InWindow(log, t) == SelectSeq(log, LAMBDA a : t - a < config.windowMs)

HasEvent(ev, e) == \E i \in DOMAIN ev : ev[i].e = e

FreeId == CHOOSE i \in 1..MaxPending : i \notin pending /\ \A j \in 1..(i - 1) : j \in pending

\* new RateLimiter(c) at time 0
InitWith(c) ==
  /\ now = 0
  /\ config = c
  /\ strategy = RateLimiter_createStrategy(c, 0)
  /\ pending = {}
  /\ last = Idle
  /\ admLog = << >>
  /\ burst = 0
  /\ registryConfig = NoRegistry
  /\ limiters = NoLimiters
  /\ cleanupTimer = -1
  /\ batch = NoBatch
  /\ api = NoApi

Init == \E c \in Configs : InitWith(c)

\* limiter.makeRequest(requestFn), up to its await
MakeRequest ==
  LET r == RateLimiter_makeRequest(strategy, config, now)
      started == HasEvent(r.ev, "requestFn")
  IN  /\ started => Cardinality(pending) < MaxPending
      /\ strategy' = r.s
      /\ pending' = IF started THEN pending \cup {FreeId} ELSE pending
      /\ last' = Last(IF started THEN FreeId ELSE 0, r.ev, Remaining)
      /\ admLog' = IF started THEN InWindow(Append(admLog, now), now) ELSE admLog
      /\ burst' = IF burst >= 0 /\ burst <= MaxCap THEN burst + 1 ELSE -1
      /\ UNCHANGED << now, config >>
      /\ UNCHANGED << registryVars, hookVars >>

\* The bookkeeping shared by the two ways a pending call is resumed.  before is
\* kept when the call resumes right after its own admission.
Settle(id, outcome, r) ==
  LET imm == HasEvent(last.ev, "requestFn") /\ last.id = id
  IN  /\ strategy' = r.s
      /\ pending' = pending \ {id}
      /\ last' = Last(0, << outcome >> \o r.ev, IF imm THEN last.before ELSE -1)
      /\ burst' = IF HasEvent(r.ev, "refundRequest") THEN -1 ELSE burst
      /\ UNCHANGED << now, config, admLog >>
      /\ UNCHANGED << registryVars, hookVars >>

\* requestFn's promise resolves
OpResolve ==
  \E id \in pending :
    Settle(id, Ev("requestFn resolved", 0), RateLimiter_resolved(strategy, config, now))

\* requestFn's promise rejects
OpReject ==
  \E id \in pending : \E error \in OpErrors :
    Settle(id, Ev("requestFn rejected", error),
           RateLimiter_rejected(strategy, config, now, error))

\* limiter.canMakeRequest()
CanMakeRequest ==
  /\ strategy' = canMakeRequest(strategy, config, now).s
  /\ last' = Idle
  /\ UNCHANGED << now, config, pending, admLog, burst >>
  /\ UNCHANGED << registryVars, hookVars >>

\* limiter.getState()
GetState ==
  /\ strategy' = getState(strategy, config, now).s
  /\ last' = Idle
  /\ UNCHANGED << now, config, pending, admLog, burst >>
  /\ UNCHANGED << registryVars, hookVars >>

\* limiter.getWaitTime()
GetWaitTime ==
  /\ strategy' = getWaitTime(strategy, config, now).s
  /\ last' = Idle
  /\ UNCHANGED << now, config, pending, admLog, burst >>
  /\ UNCHANGED << registryVars, hookVars >>

\* limiter.consumeRequest(), called directly; at most MaxOver entries over
\* the capacity are stored this way
ConsumeRequest ==
  LET r == RateLimiter_consumeRequest(strategy, config, now)
  IN  /\ Stored(strategy) < config.maxRequests + MaxOver
      /\ strategy' = r.s
      /\ last' = Last(0, r.ev, -1)
      /\ burst' = -1
      /\ UNCHANGED << now, config, pending, admLog >>
      /\ UNCHANGED << registryVars, hookVars >>

\* limiter.reset()
RateLimiter_reset(s, cfg, t) == Did(reset(s, cfg, t), FALSE, << Ev("onReset", 0) >>)

Reset ==
  LET r == RateLimiter_reset(strategy, config, now)
  IN  /\ strategy' = r.s
      /\ last' = Last(0, r.ev, -1)
      /\ admLog' = << >>
      /\ burst' = 0
      /\ UNCHANGED << now, config, pending >>
      /\ UNCHANGED << registryVars, hookVars >>

\* An updateConfig that stores the config and keeps the strategy instance
UpdateConfigTo_keep(c) ==
  /\ config' = c
  /\ strategy' = strategy
  /\ last' = Last(0, << Ev("createStrategy", 0) >>, Remaining)
  /\ admLog' = << >>
  /\ burst' = 0
  /\ UNCHANGED << now, pending >>
  /\ UNCHANGED << registryVars, hookVars >>

\* limiter.updateConfig(newConfig): { ...config, ...newConfig } is c
UpdateConfigTo(c) ==
  /\ config' = c
  /\ strategy' = RateLimiter_createStrategy(c, now)
  /\ last' = Last(0, << Ev("createStrategy", 0) >>, Remaining)
  /\ admLog' = << >>
  /\ burst' = 0
  /\ UNCHANGED << now, pending >>
  /\ UNCHANGED << registryVars, hookVars >>

\* The fields in which two configurations differ
Differ(c, d) == {f \in DOMAIN c : c[f] # d[f]}

\* newConfig names one field, as in every updateConfig call of API_REFERENCE.md,
\* or none
UpdateConfig ==
  \E c \in Configs : Cardinality(Differ(c, config)) <= 1 /\ UpdateConfigTo(c)

\* Date.now() moves to t
ClockTo(t) ==
  /\ now' = t
  /\ last' = Idle
  /\ admLog' = InWindow(admLog, t)
  /\ burst' = -1
  /\ UNCHANGED << config, strategy, pending >>
  /\ UNCHANGED << registryVars, hookVars >>

\* A millisecond passes
Tick == now < MaxTime /\ ClockTo(now + 1)

Next ==
  \/ MakeRequest
  \/ OpResolve
  \/ OpReject
  \/ CanMakeRequest
  \/ GetState
  \/ GetWaitTime
  \/ ConsumeRequest
  \/ Reset
  \/ UpdateConfig
  \/ Tick

Spec == Init /\ [][Next]_vars

\* ------------------------------------------ a limiter built from any config
\* The constructor and updateConfig take what they are given.  A token bucket
\* with maxRequests <= 0 or windowMs <= 0 computes with Infinity and NaN, which
\* the model leaves out.
ValidConfig(c) ==
  c.maxRequests > 0 /\ c.windowMs > 0 /\ c.strategy \in StrategyNames

LooseConfigs ==
  {c \in [maxRequests : -1..1, windowMs : {0, MaxWin},
          strategy : StrategyNames \cup {"leaky-bucket"},
          skipSuccessfulRequests : {FALSE}, skipFailedRequests : {FALSE}] :
     c.strategy = "token-bucket" => ValidConfig(c)}

InitLoose == \E c \in LooseConfigs : InitWith(c)

\* updateConfig with one field, or none, of any value
UpdateConfigLoose ==
  \E c \in LooseConfigs : Cardinality(Differ(c, config)) <= 1 /\ UpdateConfigTo(c)

NextLoose ==
  \/ MakeRequest
  \/ OpResolve
  \/ OpReject
  \/ CanMakeRequest
  \/ GetState
  \/ GetWaitTime
  \/ ConsumeRequest
  \/ Reset
  \/ UpdateConfigLoose
  \/ Tick

SpecLoose == InitLoose /\ [][NextLoose]_vars

\* --------------------------------------------- a clock that may step back
\* Date.now() is the wall clock: an adjustment sets it back.  The synchronous
\* methods of a limiter whose config stays as constructed.
InitPlain ==
  \E c \in Configs :
    ~c.skipSuccessfulRequests /\ ~c.skipFailedRequests /\ InitWith(c)

ClockBack == now > 0 /\ ClockTo(now - 1)

NextWallClock ==
  \/ CanMakeRequest
  \/ GetState
  \/ GetWaitTime
  \/ ConsumeRequest
  \/ Reset
  \/ Tick
  \/ ClockBack

SpecWallClock == InitPlain /\ [][NextWallClock]_vars

\* ------------------------------------------- a limiter used through makeRequest
\* makeRequest and the reads; nothing consumes directly, resets or reconfigures
NextAdmit ==
  \/ MakeRequest
  \/ OpResolve
  \/ OpReject
  \/ CanMakeRequest
  \/ GetState
  \/ GetWaitTime
  \/ Tick

SpecAdmit == Init /\ [][NextAdmit]_vars

\* ------------------------------------- a limiter whose config stays as it is
\* Every public method but updateConfig, at a clock that does not step back
NextPublic ==
  \/ MakeRequest
  \/ OpResolve
  \/ OpReject
  \/ CanMakeRequest
  \/ GetState
  \/ GetWaitTime
  \/ ConsumeRequest
  \/ Reset
  \/ Tick

SpecPublic == Init /\ [][NextPublic]_vars

\* --------------------------------- a token bucket and all it has admitted
\* A token-bucket limiter used through makeRequest and the reads; admLog keeps
\* every admission since the limiter was built, not only the last window's
InitRate ==
  \E c \in Configs :
    /\ c.strategy = "token-bucket"
    /\ ~c.skipSuccessfulRequests /\ ~c.skipFailedRequests
    /\ InitWith(c)

\* limiter.makeRequest(requestFn), up to its await
RateMakeRequest ==
  LET r == RateLimiter_makeRequest(strategy, config, now)
  IN  /\ r.admitted => Cardinality(pending) < MaxPending
      /\ strategy' = r.s
      /\ pending' = IF r.admitted THEN pending \cup {FreeId} ELSE pending
      /\ last' = Last(IF r.admitted THEN FreeId ELSE 0, r.ev, Remaining)
      /\ admLog' = IF r.admitted THEN Append(admLog, now) ELSE admLog
      /\ UNCHANGED << now, config, burst >>
      /\ UNCHANGED << registryVars, hookVars >>

\* A millisecond passes
RateTick ==
  /\ now < MaxTime
  /\ now' = now + 1
  /\ last' = Idle
  /\ UNCHANGED << config, strategy, pending, admLog, burst >>
  /\ UNCHANGED << registryVars, hookVars >>

NextRate ==
  \/ RateMakeRequest
  \/ OpResolve
  \/ CanMakeRequest
  \/ GetState
  \/ GetWaitTime
  \/ RateTick

SpecRate == InitRate /\ [][NextRate]_vars

\* ------------------------------------------------ one limiter, one timeline
\* A sliding-window limiter of three requests per second, called at the
\* instants of ScenarioTimes
ScenarioConfig ==
  [maxRequests |-> 3, windowMs |-> 1000, strategy |-> "sliding-window",
   skipSuccessfulRequests |-> FALSE, skipFailedRequests |-> FALSE]

ScenarioTimes == {0, 100, 200, 300, 1001}

InitScenario == InitWith(ScenarioConfig)

\* Date.now() reaches the next instant at which something is called
ClockJump == \E t \in ScenarioTimes : t > now /\ ClockTo(t)

NextScenario ==
  \/ MakeRequest
  \/ OpResolve
  \/ GetState
  \/ ClockJump

SpecScenario == InitScenario /\ [][NextScenario]_vars

\* ------------------------------------- a token bucket that rounds as it runs
\* new RateLimiter(c) for a token bucket, its arithmetic rounded
InitFloat ==
  \E c \in Configs :
    /\ c.strategy = "token-bucket"
    /\ ~c.skipSuccessfulRequests /\ ~c.skipFailedRequests
    /\ now = 0
    /\ config = c
    /\ strategy = FloatBucket_new(c, 0)
    /\ pending = {}
    /\ last = Idle
    /\ admLog = << >>
    /\ burst = 0
    /\ registryConfig = NoRegistry
    /\ limiters = NoLimiters
    /\ cleanupTimer = -1
    /\ batch = NoBatch
    /\ api = NoApi

\* makeRequest up to the await, on the rounded bucket
FloatLimiter_makeRequest(s, cfg, t) ==
  LET can == FloatBucket_canMakeRequest(s, cfg, t)
  IN  IF ~can.ret
      THEN LET waitTime == FloatBucket_getWaitTime(can.s, cfg, t)
           IN  Did(waitTime.s, FALSE,
                   << Ev("onRateLimit", waitTime.ret),
                      Ev("throw RateLimitError", waitTime.ret) >>)
      ELSE LET state == FloatBucket_getState(
                          FloatBucket_consumeRequest(can.s, cfg, t), cfg, t)
           IN  Did(state.s, TRUE,
                   << Ev("consume", 0), Ev("onRequest", state.ret.remaining),
                      Ev("requestFn", 0) >>)

\* The remaining a snapshot of the rounded bucket taken now would report
FloatRemaining == FloatBucket_getState(strategy, config, now).ret.remaining

\* limiter.makeRequest(requestFn), up to its await
FloatMakeRequest ==
  LET r == FloatLimiter_makeRequest(strategy, config, now)
  IN  /\ r.admitted => Cardinality(pending) < MaxPending
      /\ strategy' = r.s
      /\ pending' = IF r.admitted THEN pending \cup {FreeId} ELSE pending
      /\ last' = Last(IF r.admitted THEN FreeId ELSE 0, r.ev, FloatRemaining)
      /\ admLog' = IF r.admitted THEN InWindow(Append(admLog, now), now) ELSE admLog
      /\ burst' = IF burst >= 0 /\ burst <= MaxCap THEN burst + 1 ELSE -1
      /\ UNCHANGED << now, config >>
      /\ UNCHANGED << registryVars, hookVars >>

\* limiter.canMakeRequest()
FloatCanMakeRequest ==
  /\ strategy' = FloatBucket_canMakeRequest(strategy, config, now).s
  /\ last' = Idle
  /\ UNCHANGED << now, config, pending, admLog, burst >>
  /\ UNCHANGED << registryVars, hookVars >>

\* limiter.getState()
FloatGetState ==
  /\ strategy' = FloatBucket_getState(strategy, config, now).s
  /\ last' = Idle
  /\ UNCHANGED << now, config, pending, admLog, burst >>
  /\ UNCHANGED << registryVars, hookVars >>

\* limiter.getWaitTime()
FloatGetWaitTime ==
  /\ strategy' = FloatBucket_getWaitTime(strategy, config, now).s
  /\ last' = Idle
  /\ UNCHANGED << now, config, pending, admLog, burst >>
  /\ UNCHANGED << registryVars, hookVars >>

\* limiter.reset()
FloatReset ==
  /\ strategy' = FloatBucket_reset(strategy, config, now)
  /\ last' = Last(0, << Ev("onReset", 0) >>, -1)
  /\ admLog' = << >>
  /\ burst' = 0
  /\ UNCHANGED << now, config, pending >>
  /\ UNCHANGED << registryVars, hookVars >>

NextFloat ==
  \/ FloatMakeRequest
  \/ OpResolve
  \/ FloatCanMakeRequest
  \/ FloatGetState
  \/ FloatGetWaitTime
  \/ FloatReset
  \/ Tick

SpecFloat == InitFloat /\ [][NextFloat]_vars

\* ---------------------------------------------------- PerUserRateLimiter
\* An entry of the Map: the key's RateLimiter (its strategy; its config is the
\* registry's) and when the key was last asked for
Entry(limiter, lastUsed) == [limiter |-> limiter, lastUsed |-> lastUsed]

\* What a registry method leaves in the Map (ls), the events a callback or the
\* caller sees, and what it returns
RegOut(ls, ev, ret) == [ls |-> ls, ev |-> ev, ret |-> ret]

\* setInterval(() => this.cleanup(), cleanupInterval), started at time t
PerUser_cleanupTimer(cfg, t) ==
  IF cfg.cleanupInterval # 0 /\ cfg.cleanupInterval > 0 THEN t + cfg.cleanupInterval ELSE -1

\* A getLimiter that stamps lastUsed on creation only
PerUser_getLimiter_stale(ls, cfg, userId, t) ==
  IF userId \in DOMAIN ls
  THEN ls
  ELSE [u \in DOMAIN ls \cup {userId} |->
          IF u = userId THEN Entry(RateLimiter_createStrategy(cfg, t), t) ELSE ls[u]]

PerUser_getLimiter(ls, cfg, userId, t) ==
  IF userId \in DOMAIN ls
  THEN [ls EXCEPT ![userId].lastUsed = t]
  ELSE [u \in DOMAIN ls \cup {userId} |->
          IF u = userId THEN Entry(RateLimiter_createStrategy(cfg, t), t) ELSE ls[u]]

\* makeRequest(userId, requestFn), up to the await of the limiter's makeRequest
PerUser_makeRequest(ls, cfg, userId, t) ==
  LET g == PerUser_getLimiter(ls, cfg, userId, t)
      r == RateLimiter_makeRequest(g[userId].limiter, cfg, t)
  IN  RegOut([g EXCEPT ![userId].limiter = r.s], r.ev, r.admitted)

PerUser_canMakeRequest(ls, cfg, userId, t) ==
  LET g == PerUser_getLimiter(ls, cfg, userId, t)
      r == canMakeRequest(g[userId].limiter, cfg, t)
  IN  RegOut([g EXCEPT ![userId].limiter = r.s], << >>, r.ret)

PerUser_getState(ls, cfg, userId, t) ==
  LET g == PerUser_getLimiter(ls, cfg, userId, t)
      r == getState(g[userId].limiter, cfg, t)
  IN  RegOut([g EXCEPT ![userId].limiter = r.s], << >>, r.ret)

\* A getAllStates that asks for each key as getState(userId) does
PerUser_getAllStates_touch(ls, cfg, t) ==
  RegOut([u \in DOMAIN ls |-> Entry(getState(ls[u].limiter, cfg, t).s, t)],
         << >>,
         [u \in DOMAIN ls |-> getState(ls[u].limiter, cfg, t).ret])

PerUser_getAllStates(ls, cfg, t) ==
  RegOut([u \in DOMAIN ls |-> [ls[u] EXCEPT !.limiter = getState(@, cfg, t).s]],
         << >>,
         [u \in DOMAIN ls |-> getState(ls[u].limiter, cfg, t).ret])

\* reset(userId): the key's limiter if it has one; reset() or reset(''): all
PerUser_reset(ls, cfg, userId, t) ==
  IF userId # ""
  THEN IF userId \in DOMAIN ls
       THEN RegOut([ls EXCEPT ![userId].limiter = reset(@, cfg, t)],
                   << Ev("onReset", 0) >>, 0)
       ELSE RegOut(ls, << >>, 0)
  ELSE RegOut([u \in DOMAIN ls |-> [ls[u] EXCEPT !.limiter = reset(@, cfg, t)]],
              [i \in 1..Cardinality(DOMAIN ls) |-> Ev("onReset", 0)], 0)

PerUser_getActiveUserCount(ls) == Cardinality(DOMAIN ls)

\* A sweep that deletes every entry not asked for at this very instant
PerUser_cleanup_eager(ls, cfg, t) ==
  [u \in {v \in DOMAIN ls : ~(t - ls[v].lastUsed > 0)} |-> ls[u]]

\* maxAge = maxInactiveTime || 3600000; delete every entry idle longer
PerUser_cleanup(ls, cfg, t) ==
  LET maxAge == IF cfg.maxInactiveTime # 0 THEN cfg.maxInactiveTime
                                           ELSE DefaultMaxInactiveTime
  IN  [u \in {v \in DOMAIN ls : ~(t - ls[v].lastUsed > maxAge)} |-> ls[u]]

\* new PerUserRateLimiter(c) at time 0.  The variables of a limiter used on its
\* own stay as they are.
InitRegistry ==
  \E c \in PerUserConfigs :
    /\ now = 0
    /\ registryConfig = c
    /\ limiters = NoLimiters
    /\ cleanupTimer = PerUser_cleanupTimer(c, 0)
    /\ batch = NoBatch
    /\ api = NoApi
    /\ config = [f \in {"maxRequests", "windowMs", "strategy",
                        "skipSuccessfulRequests", "skipFailedRequests"} |-> c[f]]
    /\ strategy = RateLimiter_createStrategy(c, 0)
    /\ pending = {}
    /\ last = Idle
    /\ admLog = << >>
    /\ burst = -1

\* What a registry handler leaves alone
RegistryFrame ==
  UNCHANGED << now, config, strategy, pending, admLog, burst, registryConfig,
               hookVars >>

\* The remaining the key's snapshot would report now, -1 for a key without entry
KeyRemaining(userId) ==
  IF userId \in DOMAIN limiters
  THEN getState(limiters[userId].limiter, registryConfig, now).ret.remaining
  ELSE -1

\* registry.makeRequest(userId, requestFn), up to the await
KeyedMakeRequest ==
  \E userId \in UserIds :
    LET r == PerUser_makeRequest(limiters, registryConfig, userId, now)
    IN  /\ limiters' = r.ls
        /\ last' = Last(0, << Ev("userId", userId) >> \o r.ev, KeyRemaining(userId))
        /\ UNCHANGED cleanupTimer
        /\ RegistryFrame

\* registry.canMakeRequest(userId)
KeyedCanMakeRequest ==
  \E userId \in UserIds :
    /\ limiters' = PerUser_canMakeRequest(limiters, registryConfig, userId, now).ls
    /\ last' = Idle
    /\ UNCHANGED cleanupTimer
    /\ RegistryFrame

\* registry.getState(userId)
KeyedGetState ==
  \E userId \in UserIds :
    /\ limiters' = PerUser_getState(limiters, registryConfig, userId, now).ls
    /\ last' = Idle
    /\ UNCHANGED cleanupTimer
    /\ RegistryFrame

\* registry.getAllStates()
GetAllStates ==
  /\ limiters' = PerUser_getAllStates(limiters, registryConfig, now).ls
  /\ last' = Last(0, << Ev("getAllStates", 0) >>, -1)
  /\ UNCHANGED cleanupTimer
  /\ RegistryFrame

\* registry.reset(userId); registry.reset() goes the way of reset('')
KeyedReset ==
  \E userId \in UserIds :
    LET r == PerUser_reset(limiters, registryConfig, userId, now)
    IN  /\ limiters' = r.ls
        /\ last' = Last(0, << Ev("reset", userId) >> \o r.ev, -1)
        /\ UNCHANGED cleanupTimer
        /\ RegistryFrame

\* The interval timer fires, not before it is due, and is due again one
\* interval later
Sweep ==
  /\ cleanupTimer >= 0
  /\ now >= cleanupTimer
  /\ limiters' = PerUser_cleanup(limiters, registryConfig, now)
  /\ cleanupTimer' = now + registryConfig.cleanupInterval
  /\ last' = Last(0, << Ev("cleanup", 0) >>, -1)
  /\ RegistryFrame

\* registry.destroy()
Destroy ==
  /\ limiters' = NoLimiters
  /\ cleanupTimer' = -1
  /\ last' = Last(0, << Ev("destroy", 0) >>, -1)
  /\ RegistryFrame

NextRegistry ==
  \/ KeyedMakeRequest
  \/ KeyedCanMakeRequest
  \/ KeyedGetState
  \/ GetAllStates
  \/ KeyedReset
  \/ Sweep
  \/ Destroy
  \/ Tick

SpecRegistry == InitRegistry /\ [][NextRegistry]_vars

\* ---------------------------------------------------- useBatchRateLimiter
\* The hook keeps one RateLimiter (config, strategy) and a queue of requests.
\* A handler runs with the microtasks it leaves behind: a promise that is
\* already settled is followed to the next timer or pending operation.

\* setTimeout(resolve, 100) between two requests of the queue
BatchDelay == 100

MaxBatch == 3        \* requests passed to addToQueue
MaxHookTime == 200  \* the clock of a hook runs over 0..MaxHookTime

\* Windows shorter and longer than the pause between two requests
HookConfigs ==
  [maxRequests : 1..MaxCap, windowMs : {BatchDelay, 10 * BatchDelay},
   strategy : StrategyNames,
   skipSuccessfulRequests : {FALSE}, skipFailedRequests : {FALSE}]

\* The instants at which something happens to a hook
HookTimes == {t \in 0..MaxHookTime : t % (BatchDelay \div 2) = 0}

\* useRateLimiter's makeRequest up to the await of requestFn: the limiter's
\* makeRequest, and setState(getState()) in onRequest, onRateLimit and the catch
Hook_makeRequest(s, cfg, t) ==
  LET r == RateLimiter_makeRequest(s, cfg, t)
  IN  Did(getState(r.s, cfg, t).s, r.admitted, r.ev)

\* useRateLimiter's makeRequest after the await: setState(getState())
Hook_settled(s, cfg, t) == getState(s, cfg, t).s

\* What a handler of the batch hook leaves: the hook's refs (b), the limiter's
\* strategy (s), and what a callback or the caller sees (ev)
BatchOut(b, s, ev) == [b |-> b, s |-> s, ev |-> ev]

\* The closure pushed by addToQueue, called for request i: admitted, it waits
\* for requestFn; refused, reject(error) and the loop goes on to its setTimeout
Batch_request(b, s, cfg, t, i) ==
  LET r == Hook_makeRequest(s, cfg, t)
  IN  IF r.admitted
      THEN BatchOut([b EXCEPT !.outcome[i] = "running"], r.s, r.ev)
      ELSE BatchOut([b EXCEPT !.outcome[i] = "RateLimitError",
                              !.timer = t + BatchDelay], r.s, r.ev)

\* while (queue.length > 0) { request = queue.shift(); await request(); ... }
Batch_loop(b, s, cfg, t) ==
  IF b.queue # << >>
  THEN Batch_request([b EXCEPT !.queue = Tail(@)], s, cfg, t, Head(b.queue))
  ELSE BatchOut([b EXCEPT !.processing = FALSE], s, << >>)

\* A processQueue that does not look at processingRef
Batch_processQueue_reentrant(b, s, cfg, t) ==
  IF b.queue = << >>
  THEN BatchOut(b, s, << >>)
  ELSE Batch_loop([b EXCEPT !.processing = TRUE], s, cfg, t)

Batch_processQueue(b, s, cfg, t) ==
  IF b.processing \/ b.queue = << >>
  THEN BatchOut(b, s, << >>)
  ELSE Batch_loop([b EXCEPT !.processing = TRUE], s, cfg, t)

\* addToQueue(requestFn): push the closure, processQueue()
Batch_addToQueue(b, s, cfg, t) ==
  Batch_processQueue([b EXCEPT !.queue = Append(@, Len(b.outcome) + 1),
                               !.outcome = Append(@, "queued")], s, cfg, t)

\* const hook = useBatchRateLimiter(c) at time 0
InitBatch ==
  \E c \in HookConfigs :
    /\ now = 0
    /\ config = c
    /\ strategy = RateLimiter_createStrategy(c, 0)
    /\ pending = {}
    /\ last = Idle
    /\ admLog = << >>
    /\ burst = -1
    /\ registryConfig = NoRegistry
    /\ limiters = NoLimiters
    /\ cleanupTimer = -1
    /\ batch = NoBatch
    /\ api = NoApi

\* What a handler of the batch hook leaves alone
BatchFrame ==
  UNCHANGED << now, config, pending, admLog, burst, registryVars, api >>

AddToQueue ==
  LET r == Batch_addToQueue(batch, strategy, config, now)
  IN  /\ Len(batch.outcome) < MaxBatch
      /\ batch' = r.b
      /\ strategy' = r.s
      /\ last' = Last(0, << Ev("addToQueue", Len(batch.outcome) + 1) >> \o r.ev, -1)
      /\ BatchFrame

\* requestFn's promise settles: the request's promise follows it, and the
\* loop goes on to its setTimeout
BatchSettle(i, outcome) ==
  /\ batch.outcome[i] = "running"
  /\ batch' = [batch EXCEPT !.outcome[i] = outcome, !.timer = now + BatchDelay]
  /\ strategy' = Hook_settled(strategy, config, now)
  /\ last' = Last(0, << Ev(outcome, i) >>, -1)
  /\ BatchFrame

BatchResolve == \E i \in DOMAIN batch.outcome : BatchSettle(i, "resolved")

BatchReject == \E i \in DOMAIN batch.outcome : BatchSettle(i, "rejected")

\* The loop's setTimeout fires, not before it is due
BatchTimer ==
  LET r == Batch_loop([batch EXCEPT !.timer = -1], strategy, config, now)
  IN  /\ batch.timer >= 0
      /\ now >= batch.timer
      /\ batch' = r.b
      /\ strategy' = r.s
      /\ last' = Last(0, << Ev("setTimeout", 0) >> \o r.ev, -1)
      /\ BatchFrame

\* clearQueue()
ClearQueue ==
  /\ batch' = [batch EXCEPT !.queue = << >>]
  /\ last' = Last(0, << Ev("clearQueue", 0) >>, -1)
  /\ UNCHANGED strategy
  /\ BatchFrame

\* Date.now() reaches a later instant
HookClock == \E t \in HookTimes : t > now /\ ClockTo(t)

NextBatch ==
  \/ AddToQueue
  \/ BatchResolve
  \/ BatchReject
  \/ BatchTimer
  \/ ClearQueue
  \/ HookClock

SpecBatch == InitBatch /\ [][NextBatch]_vars

\* ------------------------------------------------------ useRateLimitedAPI
\* The hook keeps one RateLimiter (config, strategy).  Every makeAPIRequest
\* call has a requestId of its own, its place in api.calls.
MaxCalls == 2        \* makeAPIRequest calls
MaxRetries == 2      \* options.maxRetries is 0 or MaxRetries

\* options of makeAPIRequest
ApiOptions ==
  [maxRetries : {0, MaxRetries}, retryDelay : {BatchDelay \div 2},
   exponentialBackoff : BOOLEAN]

\* A limiter that one call exhausts
ApiConfigs == {c \in HookConfigs : c.maxRequests = 1}

\* error.name of what requestFn may reject with: an Error of its own, or the
\* RateLimitError of a limiter that requestFn itself goes through
ErrorNames == {"Error", "RateLimitError"}

\* One makeAPIRequest call: its options, the closure's attempt counter, where
\* it stands ("flight": requestFn pending; "backoff": in the setTimeout;
\* "resolved", "rejected": settled), when its setTimeout is due (-1: none),
\* and what has happened to it so far, in order (observation)
ApiCall(options, attempt, phase, timer, log) ==
  [options |-> options, attempt |-> attempt, phase |-> phase, timer |-> timer,
   log |-> log]

\* What a handler of the hook leaves: api (a) and the limiter's strategy (s)
ApiOut(a, s) == [a |-> a, s |-> s]

\* retryDelay * Math.pow(2, attempt - 1), or retryDelay
Api_delay(options, attempt) ==
  IF options.exponentialBackoff
  THEN options.retryDelay * 2 ^ (attempt - 1)
  ELSE options.retryDelay

\* The catch block of attemptRequest, for an error of the given name
Api_caught(a, id, name, t) ==
  LET c == a.calls[id]
  IN  IF name = "RateLimitError" /\ c.attempt < c.options.maxRetries
      THEN [a EXCEPT !.calls[id] =
                       ApiCall(c.options, c.attempt + 1, "backoff",
                               t + Api_delay(c.options, c.attempt + 1),
                               Append(c.log, Ev("wait", Api_delay(c.options, c.attempt + 1)))),
                     !.timeouts = @ \cup {id}]
      ELSE [a EXCEPT !.calls[id].phase = "rejected"]

\* attemptRequest(): makeRequest(requestFn); refused, the catch block
Api_attemptRequest(a, s, cfg, t, id) ==
  LET r == Hook_makeRequest(s, cfg, t)
  IN  IF r.admitted
      THEN ApiOut([a EXCEPT !.calls[id].phase = "flight",
                            !.calls[id].log = Append(@, Ev("admitted", 0))], r.s)
      ELSE ApiOut(Api_caught([a EXCEPT !.calls[id].log = Append(@, Ev("refused", 0))],
                             id, "RateLimitError", t), r.s)

\* makeAPIRequest(requestFn, options)
Api_makeAPIRequest(a, s, cfg, t, options) ==
  Api_attemptRequest(
    [a EXCEPT !.calls = Append(@, ApiCall(options, 0, "flight", -1, << >>))],
    s, cfg, t, Len(a.calls) + 1)

\* cancelRequest(requestId): clearTimeout of the timer the Map holds for it
Api_cancelRequest(a, id) ==
  IF id \in a.timeouts
  THEN [a EXCEPT !.calls[id].timer = -1, !.timeouts = @ \ {id}]
  ELSE a

\* cancelAllRequests(): clearTimeout of every timer of the Map, and clear()
Api_cancelAllRequests(a) ==
  [a EXCEPT !.calls = [id \in DOMAIN a.calls |->
                         IF id \in a.timeouts THEN [a.calls[id] EXCEPT !.timer = -1]
                                              ELSE a.calls[id]],
            !.timeouts = {}]

\* A call that has not settled is marked where it was first cancelled
\* (observation)
Cancelled(a, ids) ==
  [a EXCEPT !.calls = [id \in DOMAIN a.calls |->
                         IF /\ id \in ids
                            /\ a.calls[id].phase \in {"flight", "backoff"}
                            /\ ~HasEvent(a.calls[id].log, "cancel")
                         THEN [a.calls[id] EXCEPT !.log = Append(@, Ev("cancel", 0))]
                         ELSE a.calls[id]]]

\* const hook = useRateLimitedAPI(c) at time 0
InitApi ==
  \E c \in ApiConfigs :
    /\ now = 0
    /\ config = c
    /\ strategy = RateLimiter_createStrategy(c, 0)
    /\ pending = {}
    /\ last = Idle
    /\ admLog = << >>
    /\ burst = -1
    /\ registryConfig = NoRegistry
    /\ limiters = NoLimiters
    /\ cleanupTimer = -1
    /\ batch = NoBatch
    /\ api = NoApi

\* What a handler of the hook leaves alone
ApiFrame ==
  UNCHANGED << now, config, pending, admLog, burst, registryVars, batch >>

MakeAPIRequest ==
  \E options \in ApiOptions :
    LET r == Api_makeAPIRequest(api, strategy, config, now, options)
    IN  /\ Len(api.calls) < MaxCalls
        /\ api' = r.a
        /\ strategy' = r.s
        /\ last' = Idle
        /\ ApiFrame

\* requestFn's promise resolves: makeAPIRequest's promise resolves with it
ApiResolve ==
  \E id \in DOMAIN api.calls :
    /\ api.calls[id].phase = "flight"
    /\ api' = [api EXCEPT !.calls[id].phase = "resolved"]
    /\ strategy' = Hook_settled(strategy, config, now)
    /\ last' = Idle
    /\ ApiFrame

\* requestFn's promise rejects: the catch block of attemptRequest
ApiReject ==
  \E id \in DOMAIN api.calls : \E name \in ErrorNames :
    /\ api.calls[id].phase = "flight"
    /\ api' = Api_caught([api EXCEPT !.calls[id].log = Append(@, Ev("op error", name))],
                         id, name, now)
    /\ strategy' = Hook_settled(strategy, config, now)
    /\ last' = Idle
    /\ ApiFrame

\* A call's setTimeout fires, not before it is due:
\* retryTimeoutsRef.current.delete(requestId); attemptRequest()
ApiTimer ==
  \E id \in DOMAIN api.calls :
    LET r == Api_attemptRequest([api EXCEPT !.calls[id].timer = -1,
                                            !.timeouts = @ \ {id}],
                                strategy, config, now, id)
    IN  /\ api.calls[id].timer >= 0
        /\ now >= api.calls[id].timer
        /\ api' = r.a
        /\ strategy' = r.s
        /\ last' = Idle
        /\ ApiFrame

\* cancelRequest(requestId)
CancelRequest ==
  \E id \in DOMAIN api.calls :
    /\ api' = Api_cancelRequest(Cancelled(api, {id}), id)
    /\ last' = Idle
    /\ UNCHANGED strategy
    /\ ApiFrame

\* cancelAllRequests()
CancelAllRequests ==
  /\ api' = Api_cancelAllRequests(Cancelled(api, DOMAIN api.calls))
  /\ last' = Idle
  /\ UNCHANGED strategy
  /\ ApiFrame

NextApi ==
  \/ MakeAPIRequest
  \/ ApiResolve
  \/ ApiReject
  \/ ApiTimer
  \/ CancelRequest
  \/ CancelAllRequests
  \/ HookClock

SpecApi == InitApi /\ [][NextApi]_vars

\* ================================================================ claims
IsRejection(ev) ==
  /\ Len(ev) = 2
  /\ ev[1].e = "onRateLimit"
  /\ ev[2].e = "throw RateLimitError"
  /\ ev[1].v = ev[2].v

\* makeRequest at time t on strategy state s calls requestFn
Admits(s, cfg, t) == HasEvent(RateLimiter_makeRequest(s, cfg, t).ev, "requestFn")

\* The admissions logged in (t - windowMs, t]
WindowCount(t) ==
  Cardinality({i \in DOMAIN admLog : t - config.windowMs < admLog[i] /\ admLog[i] <= t})

\* C1: sliding window, makeRequest calls at a non-decreasing clock, no reset()
\* or updateConfig() (either empties admLog): no interval (t - windowMs, t]
\* holds more than maxRequests admitted calls.
C1_SlidingNoDoubleBurst ==
  strategy.kind = "sliding-window" =>
    \A t \in 0..now : WindowCount(t) <= config.maxRequests

\* The window has slid, it is full again, and a call was just rejected
C1_Witness ==
  /\ strategy.kind = "sliding-window"
  /\ now >= config.windowMs
  /\ Len(admLog) = config.maxRequests
  /\ admLog[1] < now
  /\ IsRejection(last.ev)

\* C2: check and consumption of a makeRequest are one step, before requestFn
\* suspends: of k calls on a fresh limiter at a held clock exactly
\* min(k, maxRequests) are admitted, and the consumption of a call still
\* pending is already in the snapshot.
C2_AdmissionAtomic ==
  burst >= 0 =>
    /\ Len(admLog) = Min(burst, config.maxRequests)
    /\ Remaining = config.maxRequests - Len(admLog)

\* More calls than the capacity, the admitted ones all still pending
C2_Witness ==
  /\ burst > config.maxRequests
  /\ config.maxRequests >= 2
  /\ Cardinality(pending) = config.maxRequests

\* C3: makeRequest while canMakeRequest() is false: requestFn is not called,
\* onRateLimit is called once with the wait time, onRequest is not called, the
\* RateLimitError carries the value given to onRateLimit, and remaining is
\* what it was before the call.
C3_RejectedBeforeStart ==
  /\ ~canMakeRequest(strategy, config, now).ret =>
       LET r == RateLimiter_makeRequest(strategy, config, now)
       IN  /\ IsRejection(r.ev)
           /\ getState(r.s, config, now).ret.remaining = Remaining
  /\ HasEvent(last.ev, "onRateLimit") =>
       /\ IsRejection(last.ev)
       /\ last.id = 0
       /\ Remaining = last.before

\* A call was just rejected with a positive wait while another is in flight
C3_Witness ==
  /\ IsRejection(last.ev)
  /\ last.ev[1].v > 0
  /\ pending # {}

\* C4: an admitted makeRequest consumes, then calls onRequest once with the
\* remaining after the consumption, then calls requestFn, once; resuming the
\* call never calls requestFn again.
C4_AdmittedOrder ==
  /\ HasEvent(last.ev, "requestFn") =>
       /\ last.ev = << Ev("consume", 0), Ev("onRequest", Remaining), Ev("requestFn", 0) >>
       /\ last.id \in pending
  /\ (HasEvent(last.ev, "requestFn resolved") \/ HasEvent(last.ev, "requestFn rejected")) =>
       ~HasEvent(last.ev, "requestFn")

\* A call was just admitted and onRequest was told one less than before
C4_Witness ==
  /\ HasEvent(last.ev, "requestFn")
  /\ last.ev[2].v = last.before - 1
  /\ Cardinality(pending) = 2

\* A refund is due for the call that just resumed
RefundDue ==
  \/ HasEvent(last.ev, "requestFn resolved") /\ config.skipSuccessfulRequests
  \/ HasEvent(last.ev, "requestFn rejected") /\ config.skipFailedRequests

\* C5: when requestFn succeeds and skipSuccessfulRequests is set, or fails and
\* skipFailedRequests is set, token bucket and fixed window give the unit back:
\* at a held clock remaining after the call is what it was before the call.
C5_RefundRestores ==
  (RefundDue /\ last.before >= 0 /\ config.strategy \in {"token-bucket", "fixed-window"})
    => Remaining = last.before

\* C6: a call rejected at t with retryAfter r, the limiter left alone: a call
\* at t + r is admitted and a call at any t' with t <= t' < t + r is rejected.
C6_ExactRetryAfter ==
  IsRejection(last.ev) =>
    LET r == last.ev[2].v
    IN  /\ Admits(strategy, config, now + r)
        /\ \A t \in now..(now + r - 1) : ~Admits(strategy, config, t)

\* C7: no limiter exists with maxRequests <= 0, windowMs <= 0 or an unknown
\* strategy name, and none runs another algorithm than the one named.
C7_ConfigValidated ==
  /\ ValidConfig(config)
  /\ strategy.kind = config.strategy

\* C8: what requestFn raised is what makeRequest throws, never a
\* RateLimitError, and with skipFailedRequests false the unit stays consumed.
C8_FailurePassesThrough ==
  /\ HasEvent(last.ev, "requestFn rejected") =>
       /\ last.ev[Len(last.ev)] = Ev("throw", last.ev[1].v)
       /\ ~HasEvent(last.ev, "throw RateLimitError")
       /\ (~config.skipFailedRequests /\ last.before >= 0) => Remaining = last.before - 1
  /\ \A error \in OpErrors :
       ~config.skipFailedRequests =>
         RateLimiter_rejected(strategy, config, now, error).s = strategy

\* A call failed right after its admission, the unit is still consumed
C8_Witness ==
  /\ HasEvent(last.ev, "requestFn rejected")
  /\ last.ev[1].v = 2
  /\ ~config.skipFailedRequests
  /\ last.before >= 1
  /\ Remaining = last.before - 1

\* C9: whatever was called and whatever the clock did, the snapshot has
\* 0 <= remaining <= maxRequests and retryAfter >= 0.
C9_SnapshotInRange ==
  LET state == getState(strategy, config, now).ret
  IN  /\ 0 <= state.remaining
      /\ state.remaining <= config.maxRequests
      /\ state.retryAfter >= 0

\* The window of strategy state s rolls over between t1 and t2: the fixed
\* window ends, a stored timestamp leaves the sliding window, time passes for
\* the bucket's refill
WindowRolled(s, cfg, t1, t2) ==
  LET a == getState(s, cfg, t1).s
  IN  CASE a.kind = "fixed-window" -> t2 >= a.windowStart + cfg.windowMs
        [] a.kind = "token-bucket" -> t2 > t1
        [] OTHER -> \E i \in DOMAIN a.requestTimestamps :
                      t2 - a.requestTimestamps[i] >= cfg.windowMs

\* C10 as stated: remaining is higher in the later of two snapshots only if
\* a window rollover or a reset() happened in between.
C10_RisesOnlyByRolloverOrReset ==
  [][Remaining' > Remaining =>
       \/ WindowRolled(strategy, config, now, now')
       \/ HasEvent(last'.ev, "onReset")]_vars

\* C10 amended: ... only if a window rollover, a reset() or an updateConfig()
\* happened in between.
C10_RisesOnlyByRolloverResetOrUpdate ==
  [][Remaining' > Remaining =>
       \/ WindowRolled(strategy, config, now, now')
       \/ HasEvent(last'.ev, "onReset")
       \/ HasEvent(last'.ev, "createStrategy")]_vars

\* updateConfig just raised remaining
C10_Witness ==
  /\ HasEvent(last.ev, "createStrategy")
  /\ last.before >= 0
  /\ last.before < Remaining
  /\ pending # {}

\* C11: getWaitTime() is 0 exactly when canMakeRequest() is true at the same
\* instant, and otherwise it is the delay after which canMakeRequest() becomes
\* true: false before the delay has passed, true once it has.
C11_WaitTimeUntilAllowed ==
  LET w == getWaitTime(strategy, config, now).ret
      can == canMakeRequest(strategy, config, now).ret
  IN  /\ (w = 0) <=> can
      /\ ~can =>
           /\ canMakeRequest(strategy, config, now + w).ret
           /\ \A t \in now..(now + w - 1) : ~canMakeRequest(strategy, config, t).ret

\* C12: canMakeRequest() leaves no trace: with or without a call of it now,
\* every later getState(), getWaitTime() and makeRequest() gives the same
\* snapshot (resetTime and retryAfter included), the same wait and the same
\* outcome, and so does a makeRequest that follows one of them.
C12_PreflightLeavesNoTrace ==
  LET a == canMakeRequest(strategy, config, now).s
  IN  \A t1 \in now..MaxTime :
        /\ getState(a, config, t1).ret = getState(strategy, config, t1).ret
        /\ getWaitTime(a, config, t1).ret = getWaitTime(strategy, config, t1).ret
        /\ RateLimiter_makeRequest(a, config, t1).ev
             = RateLimiter_makeRequest(strategy, config, t1).ev
        /\ \A t2 \in t1..(MaxTime + 1) :
             RateLimiter_makeRequest(RateLimiter_makeRequest(a, config, t1).s, config, t2).ev
               = RateLimiter_makeRequest(
                   RateLimiter_makeRequest(strategy, config, t1).s, config, t2).ev

\* C13: two consecutive getState() calls at a held clock, nothing in between,
\* return the same snapshot, field by field.
C13_GetStateIdempotent ==
  LET first == getState(strategy, config, now)
  IN  getState(first.s, config, now).ret = first.ret

\* The first of the two calls has work to do: a bucket that is neither empty
\* nor full and was last refilled earlier, with a call in flight
C13_Witness ==
  /\ strategy.kind = "token-bucket"
  /\ strategy.lastRefill < now
  /\ getState(strategy, config, now).s # strategy
  /\ Remaining > 0
  /\ Remaining < config.maxRequests
  /\ pending # {}

\* C14: sliding window with maxRequests admissions at t = 0 and none since:
\* one more makeRequest at any t < windowMs is rejected, and at any
\* t > windowMs it is admitted.
C14_SlidingExtraCall ==
  (/\ strategy.kind = "sliding-window"
   /\ strategy.requestTimestamps = [i \in 1..config.maxRequests |-> 0]) =>
    \A t \in now..(MaxTime + 1) :
      /\ t < config.windowMs => ~Admits(strategy, config, t)
      /\ t > config.windowMs => Admits(strategy, config, t)

\* The extra call was just rejected in the last millisecond of the window
C14_Witness ==
  /\ strategy.kind = "sliding-window"
  /\ config.maxRequests = MaxCap
  /\ strategy.requestTimestamps = [i \in 1..config.maxRequests |-> 0]
  /\ now = config.windowMs - 1
  /\ IsRejection(last.ev)
  /\ last.ev[2].v = 1

\* What an admitted makeRequest shows when onRequest is told remaining
AdmittedWith(remaining) ==
  << Ev("consume", 0), Ev("onRequest", remaining), Ev("requestFn", 0) >>

\* What a rejected makeRequest shows when the wait is retryAfter
RejectedWith(retryAfter) ==
  << Ev("onRateLimit", retryAfter), Ev("throw RateLimitError", retryAfter) >>

\* C15: maxRequests 3, windowMs 1000, sliding window: makeRequest at 0, 100 and
\* 200 is admitted with onRequest told 2, 1, 0; at 300 it fails with
\* retryAfter 700; at 1001 it is admitted and leaves remaining 0.
C15_Scenario ==
  LET ts == strategy.requestTimestamps
      r1 == RateLimiter_makeRequest(RateLimiter_createStrategy(ScenarioConfig, 0),
                                    ScenarioConfig, 0)
      r2 == RateLimiter_makeRequest(r1.s, ScenarioConfig, 100)
      r3 == RateLimiter_makeRequest(r2.s, ScenarioConfig, 200)
      r4 == RateLimiter_makeRequest(r3.s, ScenarioConfig, 300)
      r5 == RateLimiter_makeRequest(r4.s, ScenarioConfig, 1001)
  IN  /\ r1.ev = AdmittedWith(2)
      /\ r2.ev = AdmittedWith(1)
      /\ r3.ev = AdmittedWith(0)
      /\ r4.ev = RejectedWith(700)
      /\ r5.ev = AdmittedWith(0)
      /\ getState(r5.s, ScenarioConfig, 1001).ret.remaining = 0
      /\ (ts = << 0 >> /\ now = 0 /\ HasEvent(last.ev, "requestFn")) =>
           last.ev = AdmittedWith(2)
      /\ (ts = << 0, 100 >> /\ now = 100 /\ HasEvent(last.ev, "requestFn")) =>
           last.ev = AdmittedWith(1)
      /\ (ts = << 0, 100, 200 >> /\ now = 200 /\ HasEvent(last.ev, "requestFn")) =>
           last.ev = AdmittedWith(0)
      /\ (ts = << 0, 100, 200 >> /\ now = 300) =>
           /\ ~canMakeRequest(strategy, config, now).ret
           /\ HasEvent(last.ev, "onRateLimit") => last.ev = RejectedWith(700)
      /\ (ts = << 100, 200, 1001 >> /\ HasEvent(last.ev, "requestFn")) =>
           /\ last.ev = AdmittedWith(0)
           /\ Remaining = 0

\* The call at 1001 was just admitted, after those at 100 and 200
C15_Witness ==
  /\ config = ScenarioConfig
  /\ now = 1001
  /\ strategy.requestTimestamps = << 100, 200, 1001 >>
  /\ HasEvent(last.ev, "requestFn")
  /\ last.before = 1

\* The strategy after n makeRequest calls at time t
RECURSIVE AfterCalls(_, _, _, _)
AfterCalls(s, cfg, t, n) ==
  IF n = 0 THEN s ELSE AfterCalls(RateLimiter_makeRequest(s, cfg, t).s, cfg, t, n - 1)

\* C16: fixed window, at or after the end of the window, whatever was admitted
\* in it: the next maxRequests calls are all admitted, the new window counts
\* exactly those (nothing is carried over) and the call after them is rejected.
C16_FixedBoundaryBurst ==
  (strategy.kind = "fixed-window" /\ now >= strategy.windowStart + config.windowMs) =>
    /\ \A n \in 0..(config.maxRequests - 1) :
         Admits(AfterCalls(strategy, config, now, n), config, now)
    /\ AfterCalls(strategy, config, now, config.maxRequests).requestCount
         = config.maxRequests
    /\ ~Admits(AfterCalls(strategy, config, now, config.maxRequests), config, now)

\* 2 x maxRequests calls were admitted within two consecutive milliseconds,
\* across the boundary of a longer window
C16_Witness ==
  /\ strategy.kind = "fixed-window"
  /\ config.maxRequests = MaxCap
  /\ config.windowMs = MaxWin
  /\ Len(admLog) = 2 * config.maxRequests
  /\ admLog[1] = now - 1
  /\ admLog[config.maxRequests + 1] = now
  /\ strategy.requestCount = config.maxRequests

\* C17: token bucket.  On a fresh limiter k makeRequest calls at one instant
\* admit min(k, maxRequests) and leave remaining = maxRequests minus the
\* admitted; once maxRequests calls have emptied it, the snapshot taken exactly
\* windowMs later, nothing admitted meanwhile, reports remaining = maxRequests.
C17_BucketFullAfterWindow ==
  /\ (burst >= 0 /\ strategy.kind = "token-bucket") =>
       /\ Len(admLog) = Min(burst, config.maxRequests)
       /\ Remaining = config.maxRequests - Len(admLog)
       /\ burst >= config.maxRequests =>
            /\ ~Admits(strategy, config, now)
            /\ getState(strategy, config, now + config.windowMs).ret.remaining
                 = config.maxRequests
  /\ (burst >= 0 /\ strategy.kind = "token-bucket (Number)") =>
       /\ Len(admLog) = Min(burst, config.maxRequests)
       /\ FloatRemaining = config.maxRequests - Len(admLog)
       /\ burst >= config.maxRequests =>
            /\ ~FloatLimiter_makeRequest(strategy, config, now).admitted
            /\ FloatBucket_getState(strategy, config, now + config.windowMs).ret.remaining
                 = config.maxRequests

\* C18: right after reset(), at the same instant, whatever was consumed and
\* whatever is still in flight: remaining = maxRequests, isLimited is false,
\* canMakeRequest() is true, and onReset was called once and nothing else.
C18_ResetDiscards ==
  LET r == RateLimiter_reset(strategy, config, now)
      state == getState(r.s, config, now).ret
  IN  /\ r.ev = << Ev("onReset", 0) >>
      /\ state.remaining = config.maxRequests
      /\ ~state.isLimited
      /\ canMakeRequest(r.s, config, now).ret
      /\ HasEvent(last.ev, "onReset") =>
           /\ last.ev = << Ev("onReset", 0) >>
           /\ Remaining = config.maxRequests
           /\ ~getState(strategy, config, now).ret.isLimited
           /\ canMakeRequest(strategy, config, now).ret

\* reset() has just run while as many admitted calls as the limiter allows
\* are still in flight
C18_Witness ==
  /\ HasEvent(last.ev, "onReset")
  /\ config.maxRequests = MaxPending
  /\ Cardinality(pending) = MaxPending
  /\ Len(admLog) = 0
  /\ now > 0

\* C19: updateConfig() installs a fresh strategy: right after it remaining is
\* the new maxRequests, whatever was consumed before.  It leaves the calls in
\* flight alone, and a call in flight still ends by returning to its caller or
\* by throwing what requestFn raised.
C19_UpdateConfigFresh ==
  /\ [](/\ HasEvent(last.ev, "createStrategy") =>
             /\ strategy = RateLimiter_createStrategy(config, now)
             /\ Remaining = config.maxRequests
        /\ pending # {} =>
             LET ok == RateLimiter_resolved(strategy, config, now).ev
             IN  /\ ok[Len(ok)] = Ev("return", 0)
                 /\ \A error \in OpErrors :
                      LET ko == RateLimiter_rejected(strategy, config, now, error).ev
                      IN  ko[Len(ko)] = Ev("throw", error))
  /\ [][HasEvent(last'.ev, "createStrategy") => pending' = pending]_vars

\* updateConfig has just lowered maxRequests on an exhausted limiter while the
\* calls that exhausted it are in flight
C19_Witness ==
  /\ HasEvent(last.ev, "createStrategy")
  /\ last.before = 0
  /\ Cardinality(pending) = MaxPending
  /\ config.maxRequests = 1
  /\ Remaining = 1
  /\ now = 0

\* C20: a sweep removes every key idle longer than maxInactiveTime, so that
\* getAllStates() does not list it, and leaves every other entry as it was; a
\* makeRequest for a key without entry runs on a limiter made for it, at full
\* capacity.
C20_SweepEvictsIdle ==
  /\ [][HasEvent(last'.ev, "cleanup") =>
          \A u \in DOMAIN limiters :
            IF now - limiters[u].lastUsed > registryConfig.maxInactiveTime
            THEN u \notin DOMAIN PerUser_getAllStates(limiters', registryConfig, now').ret
            ELSE u \in DOMAIN limiters' /\ limiters'[u] = limiters[u]]_vars
  /\ [](\A u \in UserIds \ DOMAIN limiters :
          /\ PerUser_getState(limiters, registryConfig, u, now).ret.remaining
               = registryConfig.maxRequests
          /\ PerUser_makeRequest(limiters, registryConfig, u, now).ev
               = AdmittedWith(registryConfig.maxRequests - 1))

\* C21: after destroy() the Map is empty and there is no timer; without a
\* timer no sweep runs and none is started; and the call that follows
\* destroy() creates no entry and admits nothing.
C21_DestroyedUnusable ==
  /\ [](HasEvent(last.ev, "destroy") => DOMAIN limiters = {} /\ cleanupTimer = -1)
  /\ [][cleanupTimer = -1 =>
          cleanupTimer' = -1 /\ ~HasEvent(last'.ev, "cleanup")]_vars
  /\ [][HasEvent(last.ev, "destroy") =>
          DOMAIN limiters' = {} /\ ~HasEvent(last'.ev, "requestFn")]_vars

\* The snapshot of the key's limiter in the Map ls, read without asking the
\* registry for the key
KeySnapshot(ls, userId) == getState(ls[userId].limiter, registryConfig, now).ret

\* What the operations on the key userId leave in the Map
KeyOperations(userId) ==
  { PerUser_getLimiter(limiters, registryConfig, userId, now),
    PerUser_makeRequest(limiters, registryConfig, userId, now).ls,
    PerUser_canMakeRequest(limiters, registryConfig, userId, now).ls,
    PerUser_getState(limiters, registryConfig, userId, now).ls,
    PerUser_reset(limiters, registryConfig, userId, now).ls }

\* C22: the first reference to a key adds one entry, a limiter made from the
\* registry's config; a later reference finds the key's limiter as it was left;
\* and an operation on one key leaves the snapshot of every other key as it was.
C22_KeysIndependent ==
  \A A \in UserIds :
    /\ A \notin DOMAIN limiters =>
         LET g == PerUser_getLimiter(limiters, registryConfig, A, now)
         IN  /\ DOMAIN g = DOMAIN limiters \cup {A}
             /\ g[A].limiter = RateLimiter_createStrategy(registryConfig, now)
    /\ A \in DOMAIN limiters =>
         LET g == PerUser_getLimiter(limiters, registryConfig, A, now)
         IN  DOMAIN g = DOMAIN limiters /\ g[A].limiter = limiters[A].limiter
    /\ \A B \in DOMAIN limiters \ {A} :
         \A ls \in KeyOperations(A) :
           B \in DOMAIN ls /\ KeySnapshot(ls, B) = KeySnapshot(limiters, B)

\* C23: getAllStates() returns one snapshot for each key in the Map and for
\* no other, the one getState(userId) would return; the call leaves the key
\* set and every lastUsed as they were, and the snapshots too.
C23_AllStatesExact ==
  /\ [](LET r == PerUser_getAllStates(limiters, registryConfig, now)
        IN  /\ DOMAIN r.ret = DOMAIN limiters
            /\ DOMAIN r.ls = DOMAIN limiters
            /\ \A u \in DOMAIN limiters :
                 /\ r.ret[u] = PerUser_getState(limiters, registryConfig, u, now).ret
                 /\ r.ls[u].lastUsed = limiters[u].lastUsed
                 /\ KeySnapshot(r.ls, u) = r.ret[u])
  /\ [][HasEvent(last'.ev, "getAllStates") =>
          /\ DOMAIN limiters' = DOMAIN limiters
          /\ \A u \in DOMAIN limiters :
               /\ limiters'[u].lastUsed = limiters[u].lastUsed
               /\ KeySnapshot(limiters, u)
                    = getState(limiters'[u].limiter, registryConfig, now').ret]_vars

\* getAllStates() has just run over two keys, one of them exhausted, both
\* last asked for earlier
C23_Witness ==
  /\ HasEvent(last.ev, "getAllStates")
  /\ DOMAIN limiters = UserIds
  /\ \A u \in UserIds : limiters[u].lastUsed < now
  /\ \E u \in UserIds : KeySnapshot(limiters, u).isLimited
  /\ \E u \in UserIds : ~KeySnapshot(limiters, u).isLimited

\* C24: a limiter that refuses now, left alone, admits at some instant within
\* the next windowMs; and at a held clock it goes on refusing, whatever is
\* read from it.
C24_OpensWithinWindow ==
  /\ (strategy.kind \in StrategyNames /\ ~canMakeRequest(strategy, config, now).ret) =>
       /\ \E d \in 0..config.windowMs :
            canMakeRequest(strategy, config, now + d).ret
       /\ \A s \in { canMakeRequest(strategy, config, now).s,
                     getState(strategy, config, now).s,
                     getWaitTime(strategy, config, now).s } :
            ~canMakeRequest(s, config, now).ret
  /\ (strategy.kind = "token-bucket (Number)"
        /\ ~FloatBucket_canMakeRequest(strategy, config, now).ret) =>
       /\ \E d \in 0..config.windowMs :
            FloatBucket_canMakeRequest(strategy, config, now + d).ret
       /\ \A s \in { FloatBucket_canMakeRequest(strategy, config, now).s,
                     FloatBucket_getState(strategy, config, now).s,
                     FloatBucket_getWaitTime(strategy, config, now).s } :
            ~FloatBucket_canMakeRequest(s, config, now).ret

\* C25: no request passed to addToQueue has its promise rejected with
\* RateLimitError; a request taken from the queue is executed.
C25_BatchNeverRejects ==
  \A i \in DOMAIN batch.outcome : batch.outcome[i] # "RateLimitError"

\* The places in a call's log where an attempt was made
Attempts(log) == {i \in DOMAIN log : log[i].e \in {"refused", "admitted"}}

\* The waits of a call's log, in order
Waits(log) == SelectSeq(log, LAMBDA x : x.e = "wait")

\* C26: a makeAPIRequest call makes at most maxRetries + 1 attempts; its n-th
\* wait is retryDelay * 2^(n-1) with exponentialBackoff and retryDelay
\* without; no attempt follows an admitted one; and an error of requestFn is
\* the last thing that happens to the call, which is then rejected.
C26_RetryOnlyWhenRefused ==
  \A id \in DOMAIN api.calls :
    LET c == api.calls[id]
    IN  /\ Cardinality(Attempts(c.log)) <= c.options.maxRetries + 1
        /\ \A n \in DOMAIN Waits(c.log) :
             Waits(c.log)[n].v = IF c.options.exponentialBackoff
                                 THEN c.options.retryDelay * 2 ^ (n - 1)
                                 ELSE c.options.retryDelay
        /\ \A i \in Attempts(c.log) :
             c.log[i].e = "admitted" => \A j \in Attempts(c.log) : j <= i
        /\ \A i \in DOMAIN c.log :
             c.log[i].e = "op error" =>
               c.phase = "rejected" /\ \A j \in DOMAIN c.log : c.log[j].e = "wait" => j < i

\* C27: once a call that has not settled is cancelled, no attempt of it is
\* started, whether requestFn was pending or the call was in its setTimeout.
C27_NoAttemptAfterCancel ==
  \A id \in DOMAIN api.calls :
    LET log == api.calls[id].log
    IN  \A i \in DOMAIN log :
          log[i].e = "cancel" => \A j \in Attempts(log) : j < i

\* The admissions logged since instant t
AdmittedSince(t) == Cardinality({i \in DOMAIN admLog : admLog[i] >= t})

\* C28: through makeRequest no strategy admits more than maxRequests calls at
\* one instant.  Fixed window: the count never passes maxRequests, and while
\* the window lasts it is the number of calls admitted since the window began.
\* Sliding window: no interval (t - windowMs, t] holds more than maxRequests
\* admitted calls, and no more timestamps are stored.  Token bucket: the level
\* stays between 0 and maxRequests.
C28_AdmitsWithinCapacity ==
  /\ AdmittedSince(now) <= config.maxRequests
  /\ strategy.kind = "fixed-window" =>
       /\ strategy.requestCount <= config.maxRequests
       /\ now < strategy.windowStart + config.windowMs =>
            AdmittedSince(strategy.windowStart) = strategy.requestCount
  /\ strategy.kind = "sliding-window" =>
       /\ \A t \in 0..now : WindowCount(t) <= config.maxRequests
       /\ Len(strategy.requestTimestamps) <= config.maxRequests
  /\ strategy.kind = "token-bucket" =>
       strategy.tokens >= 0 /\ strategy.tokens <= config.maxRequests * config.windowMs

\* A fixed window that has rolled over is full again, the call after the
\* admitted ones was refused, and the window before it was full too
C28_Witness ==
  /\ strategy.kind = "fixed-window"
  /\ strategy.windowStart > 0
  /\ now < strategy.windowStart + config.windowMs
  /\ strategy.requestCount = config.maxRequests
  /\ config.maxRequests = MaxCap
  /\ Len(admLog) > config.maxRequests
  /\ IsRejection(last.ev)

\* C29: the snapshot taken now has remaining = max(0, maxRequests -
\* totalRequests), and totalRequests is the number of stored timestamps
\* (sliding window), the count (fixed window), maxRequests - floor(tokens)
\* (token bucket), each as the snapshot's own purge, rollover or refill left it.
C29_RemainingFromTotal ==
  strategy.kind \in StrategyNames =>
    LET state == getState(strategy, config, now)
    IN  /\ state.ret.remaining = Max(0, config.maxRequests - state.ret.totalRequests)
        /\ state.ret.totalRequests =
             CASE strategy.kind = "fixed-window" -> state.s.requestCount
               [] strategy.kind = "token-bucket" ->
                    config.maxRequests - (state.s.tokens \div config.windowMs)
               [] OTHER -> Len(state.s.requestTimestamps)

\* C30: sliding window: the stored timestamps are in ascending order and
\* there are no more of them than maxRequests.
C30_SlidingAscendingBounded ==
  strategy.kind = "sliding-window" =>
    /\ \A i, j \in DOMAIN strategy.requestTimestamps :
         i < j => strategy.requestTimestamps[i] <= strategy.requestTimestamps[j]
    /\ Len(strategy.requestTimestamps) <= config.maxRequests

\* The stored timestamps a sliding-window snapshot taken at t counts
Counted(s, cfg, t) ==
  {i \in DOMAIN s.requestTimestamps : t - s.requestTimestamps[i] < cfg.windowMs}

\* The oldest of the timestamps at the positions of a non-empty set
Oldest(s, positions) ==
  CHOOSE a \in {s.requestTimestamps[i] : i \in positions} :
    \A i \in positions : a <= s.requestTimestamps[i]

\* C31: a sliding-window snapshot taken now counts exactly the timestamps
\* with now - timestamp < windowMs, those in (now - windowMs, now]; its
\* resetTime is the oldest of them + windowMs, or now + windowMs when there is
\* none; when limited, its retryAfter is windowMs - (now - oldest), at least 0.
C31_SlidingSnapshot ==
  strategy.kind = "sliding-window" =>
    LET snap == getState(strategy, config, now).ret
        ts == strategy.requestTimestamps
        counted == Counted(strategy, config, now)
    IN  /\ snap.totalRequests = Cardinality(counted)
        /\ counted = {i \in DOMAIN ts : ts[i] > now - config.windowMs /\ ts[i] <= now}
        /\ snap.resetTime = IF counted = {}
                            THEN now + config.windowMs
                            ELSE Oldest(strategy, counted) + config.windowMs
        /\ snap.isLimited =>
             /\ counted # {}
             /\ snap.retryAfter =
                  Max(0, config.windowMs - (now - Oldest(strategy, counted)))

\* A limited sliding window that stores an expired timestamp next to a counted
\* one, the counted one older than now
C31_Witness ==
  /\ strategy.kind = "sliding-window"
  /\ getState(strategy, config, now).ret.isLimited
  /\ Counted(strategy, config, now) # {}
  /\ Counted(strategy, config, now) # DOMAIN strategy.requestTimestamps
  /\ Oldest(strategy, Counted(strategy, config, now)) < now

\* The fixed window over at t
WindowOver(s, cfg, t) == t >= s.windowStart + cfg.windowMs

\* windowStart and requestCount as the rollover of C32 leaves them at t
RolledStart(s, cfg, t) == IF WindowOver(s, cfg, t) THEN t ELSE s.windowStart

RolledCount(s, cfg, t) == IF WindowOver(s, cfg, t) THEN 0 ELSE s.requestCount

\* C32: canMakeRequest, consumeRequest and getState of a fixed window each
\* set windowStart to now and the count to 0 when now >= windowStart +
\* windowMs and leave both alone otherwise (consumeRequest then counts its
\* request); the snapshot's resetTime is the resulting windowStart + windowMs,
\* later than now, and when limited its retryAfter is max(0, resetTime - now).
C32_FixedRollover ==
  strategy.kind = "fixed-window" =>
    LET start == RolledStart(strategy, config, now)
        count == RolledCount(strategy, config, now)
        can == canMakeRequest(strategy, config, now).s
        consumed == consumeRequest(strategy, config, now)
        state == getState(strategy, config, now)
    IN  /\ can.windowStart = start /\ can.requestCount = count
        /\ consumed.windowStart = start /\ consumed.requestCount = count + 1
        /\ state.s.windowStart = start /\ state.s.requestCount = count
        /\ state.ret.resetTime = start + config.windowMs
        /\ state.ret.resetTime > now
        /\ state.ret.isLimited =>
             state.ret.retryAfter = Max(0, state.ret.resetTime - now)

\* A full fixed window whose end has passed with nothing called since
C32_Witness ==
  /\ strategy.kind = "fixed-window"
  /\ WindowOver(strategy, config, now)
  /\ now > strategy.windowStart + config.windowMs
  /\ strategy.windowStart > 0
  /\ strategy.requestCount >= config.maxRequests

\* The bucket's level as a fraction: the exact bucket keeps it as a numerator
\* over windowMs, the rounded one as the Number it is
Level(s, cfg) ==
  IF s.kind = "token-bucket" THEN Ratio(s.tokens, cfg.windowMs) ELSE s.tokens

\* min(maxRequests, level + dt x maxRequests / windowMs), as the fraction
\* RefilledNum / RefilledDen
RefilledNum(level, dt, cfg) ==
  Min(cfg.maxRequests * level.den * cfg.windowMs,
      level.num * cfg.windowMs + dt * cfg.maxRequests * level.den)

RefilledDen(level, cfg) == level.den * cfg.windowMs

\* A Number within the rounding of a few operations of the fraction en / ed
Near(a, en, ed) ==
  LET diff == a.num * ed - en * a.den
  IN  (IF diff >= 0 THEN diff ELSE -diff) * Pow2(Precision - 3) <= en * a.den

\* What C33 says of a call whose refill leaves en / ed tokens: whether it
\* admits, and the snapshot's and getWaitTime's numbers
LevelAgrees(en, ed, cfg, can, snap, wait) ==
  /\ can <=> en >= ed
  /\ snap.remaining = en \div ed
  /\ en < ed =>
       /\ wait = CeilDiv((ed - en) * cfg.windowMs, ed * cfg.maxRequests)
       /\ snap.retryAfter = wait

\* C33: canMakeRequest, consumeRequest, getState and getWaitTime of a token
\* bucket first set tokens = min(maxRequests, tokens + (now - lastRefill) x
\* maxRequests / windowMs) and lastRefill = now; 0 <= tokens <= maxRequests in
\* every reachable state; the call admits iff tokens >= 1, remaining =
\* floor(tokens), and when tokens < 1 retryAfter = ceil((1 - tokens) x
\* windowMs / maxRequests).  The rounded bucket holds the formula's level up
\* to rounding.
C33_BucketRefill ==
  /\ strategy.kind = "token-bucket" =>
       LET can == canMakeRequest(strategy, config, now)
           state == getState(strategy, config, now)
           wait == getWaitTime(strategy, config, now)
           level == Level(strategy, config)
           after == Level(can.s, config)
           en == RefilledNum(level, now - strategy.lastRefill, config)
           ed == RefilledDen(level, config)
       IN  /\ level.num >= 0 /\ level.num <= config.maxRequests * level.den
           /\ after.num * ed = en * after.den
           /\ LevelAgrees(en, ed, config, can.ret, state.ret, wait.ret)
           /\ state.s = can.s /\ wait.s = can.s
           /\ \A s \in {can.s, consumeRequest(strategy, config, now)} :
                s.lastRefill = now
  /\ strategy.kind = "token-bucket (Number)" =>
       LET can == FloatBucket_canMakeRequest(strategy, config, now)
           state == FloatBucket_getState(strategy, config, now)
           wait == FloatBucket_getWaitTime(strategy, config, now)
           level == Level(strategy, config)
           after == Level(can.s, config)
           en == RefilledNum(level, now - strategy.lastRefill, config)
           ed == RefilledDen(level, config)
       IN  /\ level.num >= 0 /\ level.num <= config.maxRequests * level.den
           /\ Near(after, en, ed)
           /\ LevelAgrees(en, ed, config, can.ret, state.ret, wait.ret)
           /\ state.s = can.s /\ wait.s = can.s
           /\ \A s \in {can.s, FloatBucket_consumeRequest(strategy, config, now)} :
                s.lastRefill = now

\* C34: consumeRequest() on a token bucket that holds t tokens after its
\* refill leaves max(0, t - 1) tokens, for every t in [0, maxRequests], a t
\* below 1 included.
C34_ConsumeFloored ==
  strategy.kind = "token-bucket" =>
    LET refilled == TokenBucket_refillTokens(strategy, config, now)
        consumed == consumeRequest(strategy, config, now)
    IN  /\ refilled.tokens >= 0
        /\ refilled.tokens <= config.maxRequests * config.windowMs
        /\ consumed.tokens = Max(0, refilled.tokens - config.windowMs)

\* The requests of the batch hook whose requestFn is running
InFlight == {i \in DOMAIN batch.outcome : batch.outcome[i] = "running"}

\* The requests the loop has taken from the queue
Started == {i \in DOMAIN batch.outcome : batch.outcome[i] # "queued"}

\* C35: the batch hook runs at most one queued request at a time and at most
\* one loop (a loop is either waiting for its request or for its setTimeout);
\* requests are taken in the order they were added; and while a request is in
\* the queue a loop is running that will come to it.
C35_BatchFifo ==
  /\ Cardinality(InFlight) <= 1
  /\ batch.processing <=> (batch.timer >= 0 \/ InFlight # {})
  /\ ~(batch.timer >= 0 /\ InFlight # {})
  /\ \A k \in DOMAIN batch.queue :
       /\ \A j \in Started : j < batch.queue[k]
       /\ \A l \in DOMAIN batch.queue : k < l => batch.queue[k] < batch.queue[l]
  /\ batch.queue # << >> => batch.processing

\* A request was added while another was running, after the loop had already
\* finished one
C35_Witness ==
  /\ InFlight # {}
  /\ batch.queue # << >>
  /\ \E i \in Started : batch.outcome[i] = "resolved"
  /\ HasEvent(last.ev, "addToQueue")

\* C36: in every reachable state a snapshot and a canMakeRequest() taken at
\* the same instant agree: isLimited iff remaining = 0 iff canMakeRequest()
\* is false, and retryAfter = 0 whenever isLimited is false.
C36_SnapshotAgreesWithCheck ==
  strategy.kind \in StrategyNames =>
    LET state == getState(strategy, config, now).ret
        can == canMakeRequest(strategy, config, now).ret
    IN  /\ state.isLimited <=> state.remaining = 0
        /\ state.isLimited <=> ~can
        /\ ~state.isLimited => state.retryAfter = 0

\* C37: every snapshot taken at time now has resetTime >= now, and a limited
\* one has resetTime = now + retryAfter.
C37_ResetMatchesRetry ==
  /\ strategy.kind \in StrategyNames =>
       LET state == getState(strategy, config, now).ret
       IN  /\ state.resetTime >= now
           /\ state.isLimited => state.resetTime = now + state.retryAfter
  /\ strategy.kind = "token-bucket (Number)" =>
       LET state == FloatBucket_getState(strategy, config, now).ret
       IN  /\ state.resetTime >= now
           /\ state.isLimited => state.resetTime = now + state.retryAfter

\* A limited snapshot taken part of the way through the wait, the limiter
\* having been used before the clock last moved
C37_Witness ==
  /\ strategy.kind \in StrategyNames
  /\ getState(strategy, config, now).ret.isLimited
  /\ getState(strategy, config, now).ret.retryAfter > 0
  /\ getState(strategy, config, now).ret.retryAfter < config.windowMs
  /\ now > 1

\* C38: a token bucket used through makeRequest, never reset or
\* reconfigured, admits in any interval of length d at most maxRequests +
\* floor(d x maxRequests / windowMs) calls: at most maxRequests at one instant
\* and at most 2 x maxRequests within windowMs.
C38_BucketRateBound ==
  \A i, j \in DOMAIN admLog :
    i <= j =>
      /\ j - i + 1 <= config.maxRequests
                        + ((admLog[j] - admLog[i]) * config.maxRequests) \div config.windowMs
      /\ admLog[j] = admLog[i] => j - i + 1 <= config.maxRequests
      /\ admLog[j] - admLog[i] <= config.windowMs => j - i + 1 <= 2 * config.maxRequests

\* The bucket admitted all the bound allows over an interval longer than one
\* window, and was refused in between
C38_Witness ==
  /\ \E i, j \in DOMAIN admLog :
       /\ admLog[j] - admLog[i] > config.windowMs
       /\ j - i + 1 = config.maxRequests
                        + ((admLog[j] - admLog[i]) * config.maxRequests) \div config.windowMs
  /\ HasEvent(last.ev, "throw RateLimitError")

\* C39: with maxInactiveTime >= windowMs, an entry a sweep deletes reports
\* remaining = maxRequests at that moment, whatever its strategy.
C39_EvictedAreRecovered ==
  [][(HasEvent(last'.ev, "cleanup")
        /\ registryConfig.maxInactiveTime >= registryConfig.windowMs) =>
       \A u \in DOMAIN limiters \ DOMAIN limiters' :
         KeySnapshot(limiters, u).remaining = registryConfig.maxRequests]_vars

\* A sweep is due that deletes an entry which was not at full capacity when
\* it was last asked for
C39_Witness ==
  /\ registryConfig.maxInactiveTime >= registryConfig.windowMs
  /\ cleanupTimer >= 0 /\ now >= cleanupTimer
  /\ \E u \in DOMAIN limiters :
       /\ u \notin DOMAIN PerUser_cleanup(limiters, registryConfig, now)
       /\ getState(limiters[u].limiter, registryConfig, limiters[u].lastUsed).ret.remaining
            < registryConfig.maxRequests

\* C40: canMakeRequest(userId) and getState(userId) leave the key with an
\* entry, created if it had none, whose lastUsed is now, as makeRequest(userId)
\* does; a sweep does not delete a key asked for within the last
\* maxInactiveTime; reset(userId) creates no entry and changes no lastUsed.
C40_ReadsCountAsUse ==
  /\ [](\A userId \in UserIds :
          LET made == PerUser_makeRequest(limiters, registryConfig, userId, now).ls
          IN  /\ \A ls \in { PerUser_canMakeRequest(limiters, registryConfig, userId, now).ls,
                             PerUser_getState(limiters, registryConfig, userId, now).ls } :
                   /\ DOMAIN ls = DOMAIN limiters \cup {userId}
                   /\ DOMAIN ls = DOMAIN made
                   /\ ls[userId].lastUsed = now
                   /\ \A u \in DOMAIN ls : ls[u].lastUsed = made[u].lastUsed
                   /\ userId \notin DOMAIN limiters =>
                        KeySnapshot(ls, userId).remaining = registryConfig.maxRequests
              /\ LET r == PerUser_reset(limiters, registryConfig, userId, now).ls
                 IN  /\ DOMAIN r = DOMAIN limiters
                     /\ \A u \in DOMAIN limiters : r[u].lastUsed = limiters[u].lastUsed)
  /\ [][HasEvent(last'.ev, "cleanup") =>
          \A u \in DOMAIN limiters :
            (registryConfig.maxInactiveTime > 0
               /\ now - limiters[u].lastUsed <= registryConfig.maxInactiveTime) =>
              u \in DOMAIN limiters' /\ limiters'[u] = limiters[u]]_vars
  /\ [][HasEvent(last'.ev, "reset") =>
          /\ DOMAIN limiters' = DOMAIN limiters
          /\ \A u \in DOMAIN limiters : limiters'[u].lastUsed = limiters[u].lastUsed]_vars

\* A sweep has just left a key that was never charged and was asked for
\* after it was created, at an instant at which a key created at the start
\* and left alone is deleted
C40_Witness ==
  /\ HasEvent(last.ev, "cleanup")
  /\ registryConfig.maxInactiveTime > 0
  /\ now > registryConfig.maxInactiveTime
  /\ \E u \in DOMAIN limiters :
       /\ limiters[u].lastUsed > 0
       /\ now - limiters[u].lastUsed < registryConfig.maxInactiveTime
       /\ limiters[u].limiter
            = canMakeRequest(RateLimiter_createStrategy(registryConfig, 0),
                             registryConfig, limiters[u].lastUsed).s

====
